---- MODULE Spec2Model ----
(***************************************************************************)
(* Model of the Markdown <-> Word converter of src/word_converter.py.      *)
(*                                                                         *)
(* Text is a sequence of tokens.  A token is a one-character string for    *)
(* every character the code inspects ("|", "#", "-", ":", " ", "!", ...)   *)
(* and a longer string for a run of ordinary characters ("Title", "x").    *)
(* A Markdown source is a sequence of lines, a line a sequence of tokens.  *)
(***************************************************************************)
EXTENDS Integers, Sequences, FiniteSets, TLC

VARIABLES
    pc,      \* position of the running call
    md,      \* markdown_content as handed to markdown_to_word (tokens, "\n" between lines)
    outArg,  \* output_filename as handed to markdown_to_word (<<>> is None)
    lines,   \* markdown_to_word: the local list of lines
    i,       \* markdown_to_word: the loop index, 1-based (Python i + 1)
    doc,     \* the python-docx Document: its body elements in order
    files,   \* the file system: the paths that are files
    net,     \* history: the URL of every requests.get, in order
    iters,   \* history: one record per iteration of the main loop
    ret,     \* what the call returned (a path) or raised
    parts,   \* _extract_content_from_doc: the local list of fragments
    mdOut,   \* what word_to_markdown returned (<<>> before it has)
    calls,   \* history: the calls made to collaborators, in order
    result,  \* what generate_document returned (<<>> before it has)
    upload   \* web_app: per session, the locals of the handler that saves an image

vars ==
    <<pc, md, outArg, lines, i, doc, files, net, iters, ret, parts, mdOut, calls,
      result, upload>>

(***************************************************************************)
(* Python string operations on token sequences                             *)
(***************************************************************************)
\* str.strip() removes these from both ends
WS == {" ", "\t", "\r"}

\* the token of the backquote character (no TLA+ string can hold it)
BQ == "BQ"

Digits == {"0", "1", "2", "3", "4", "5", "6", "7", "8", "9"}

SetMin(S) == CHOOSE x \in S : \A y \in S : x <= y

SetMax(S) == CHOOSE x \in S : \A y \in S : x >= y

\* s.strip()
Strip(s) ==
    LET keep == {k \in 1..Len(s) : s[k] \notin WS}
    IN  IF keep = {} THEN <<>> ELSE SubSeq(s, SetMin(keep), SetMax(keep))

\* s.startswith(p)
StartsWith(s, p) == Len(s) >= Len(p) /\ SubSeq(s, 1, Len(p)) = p

\* s[n:] for n >= 0
From(s, n) == SubSeq(s, n + 1, Len(s))

\* s.split(d): one more part than there are d's in s
Split(s, d) ==
    LET pos == {k \in 1..Len(s) : s[k] = d}
        \* the j-th d of s; position 0 and position Len(s) + 1 bound the parts
        At(j) == IF j = 0 THEN 0
                 ELSE IF j > Cardinality(pos) THEN Len(s) + 1
                 ELSE CHOOSE q \in pos : Cardinality({r \in pos : r < q}) = j - 1
    IN  [j \in 1..(Cardinality(pos) + 1) |-> SubSeq(s, At(j - 1) + 1, At(j) - 1)]

\* parts[1:-1]
Inner(pieces) == SubSeq(pieces, 2, Len(pieces) - 1)

\* [c.strip() for c in line.split('|')[1:-1]]
RowCells(line) ==
    LET inner == Inner(Split(line, "|"))
    IN  [k \in 1..Len(inner) |-> Strip(inner[k])]

\* line.startswith('|') and '|' in line[1:]
IsTableHeader(line) ==
    /\ StartsWith(line, <<"|">>)
    /\ \E k \in 2..Len(line) : line[k] = "|"

\* a variant that is content with one dash
IsSepCellAnyDashes(p) ==
    LET a == IF Len(p) > 0 /\ p[1] = ":" THEN 2 ELSE 1
        b == IF Len(p) > 0 /\ p[Len(p)] = ":" THEN Len(p) - 1 ELSE Len(p)
    IN  /\ b - a + 1 >= 1
        /\ \A k \in a..b : p[k] = "-"

\* re.match(r'^:?-{3,}:?$', p)
IsSepCell(p) ==
    LET a == IF Len(p) > 0 /\ p[1] = ":" THEN 2 ELSE 1
        b == IF Len(p) > 0 /\ p[Len(p)] = ":" THEN Len(p) - 1 ELSE Len(p)
    IN  /\ b - a + 1 >= 3
        /\ \A k \in a..b : p[k] = "-"

IsTableSeparator(line) ==
    /\ StartsWith(line, <<"|">>)
    /\ \E k \in 2..Len(line) : line[k] = "|"
    /\ LET cells == RowCells(line)
       IN  /\ Len(cells) > 0
           /\ \A k \in 1..Len(cells) : IsSepCell(cells[k])

(***************************************************************************)
(* Inline formatting: re.split on bold, italic and code spans, each lazy  *)
(***************************************************************************)
\* the end of the match of the pattern that starts at p, 0 when none does;
\* the alternatives are tried in the order written, each one lazy
MatchEndAt(text, p) ==
    LET n == Len(text)
        bold == {j \in (p + 2)..(n - 1) : text[j] = "*" /\ text[j + 1] = "*"}
        ital == {j \in (p + 1)..n : text[j] = "*"}
        code == {j \in (p + 1)..n : text[j] = BQ}
    IN  IF text[p] = "*" /\ p < n /\ text[p + 1] = "*" /\ bold # {}
            THEN SetMin(bold) + 1
        ELSE IF text[p] = "*" /\ ital # {} THEN SetMin(ital)
        ELSE IF text[p] = BQ /\ code # {} THEN SetMin(code)
        ELSE 0

\* the parts re.split returns for text[from..]: text, match, text, match, ..., text
RECURSIVE InlineParts(_, _)
InlineParts(text, from) ==
    LET starts == {p \in from..Len(text) : MatchEndAt(text, p) # 0}
    IN  IF starts = {} THEN <<SubSeq(text, from, Len(text))>>
        ELSE LET p == SetMin(starts)
                 e == MatchEndAt(text, p)
             IN  <<SubSeq(text, from, p - 1), SubSeq(text, p, e)>>
                     \o InlineParts(text, e + 1)

EndsWith(s, p) == Len(s) >= Len(p) /\ SubSeq(s, Len(s) - Len(p) + 1, Len(s)) = p

\* one run of a paragraph; pic is the path of an inline picture, <<>> for none
Run(text, fmt) == [text |-> text, fmt |-> fmt, pic |-> <<>>]

\* the run _add_paragraph adds for one part
PartRun(part) ==
    IF StartsWith(part, <<"*", "*">>) /\ EndsWith(part, <<"*", "*">>)
        THEN Run(SubSeq(part, 3, Len(part) - 2), "bold")
    ELSE IF StartsWith(part, <<"*">>) /\ EndsWith(part, <<"*">>)
        THEN Run(SubSeq(part, 2, Len(part) - 1), "italic")
    ELSE IF StartsWith(part, <<BQ>>) /\ EndsWith(part, <<BQ>>)
        THEN Run(SubSeq(part, 2, Len(part) - 1), "mono")
    ELSE Run(part, "plain")

(***************************************************************************)
(* The document: a sequence of body elements, paragraphs and tables        *)
(***************************************************************************)
\* pPr.numPr of a paragraph that has no numbering properties
NoNumPr == [present |-> FALSE, ilvl |-> 0, numId |-> 0]

Para(style, runs, align) ==
    [t |-> "p", style |-> style, runs |-> runs, align |-> align, numPr |-> NoNumPr]

\* gridSpan 0 and vMerge "none": the cell has no such property
Cell(text) == [text |-> text, gridSpan |-> 0, vMerge |-> "none"]

Table(rows) == [t |-> "tbl", style |-> "Table Grid", rows |-> rows]

\* doc.add_paragraph()
EmptyPara == Para("Normal", <<>>, "none")

AddParagraph(text) ==
    LET pieces == InlineParts(text, 1)
    IN  Para("Normal", [k \in 1..Len(pieces) |-> PartRun(pieces[k])], "none")

\* the style doc.add_heading(text, level) gives the paragraph
HeadingStyle(level) ==
    CASE level = 1 -> "Heading 1" [] level = 2 -> "Heading 2"
      [] level = 3 -> "Heading 3" [] level = 4 -> "Heading 4"
      [] level = 5 -> "Heading 5" [] level = 6 -> "Heading 6"
      [] level = 7 -> "Heading 7" [] level = 8 -> "Heading 8"
      [] OTHER -> "Heading 9"

\* doc.add_heading and _format_heading
AddHeading(text, level) ==
    Para(HeadingStyle(level), <<Run(text, "plain")>>, "left")

AddListItem(text, isOrdered) ==
    Para(IF isOrdered THEN "List Number" ELSE "List Bullet",
         <<Run(text, "plain")>>, "none")

AddQuote(text) == Para("Quote", <<Run(text, "plain")>>, "none")

\* paragraph.text: the texts of the runs, concatenated
RECURSIVE Concat(_)
Concat(ss) == IF ss = <<>> THEN <<>> ELSE Head(ss) \o Concat(Tail(ss))

ParaText(para) == Concat([k \in 1..Len(para.runs) |-> para.runs[k].text])

(***************************************************************************)
(* Paths (os.path) on token sequences, "/" and "." being tokens            *)
(***************************************************************************)
\* Config.OUTPUT_DIR
OutputDir == <<"output">>

\* the two URL schemes the code tests for; a scheme is one token
Schemes == {"http://", "https://"}

\* None, for a path or a filename
None == <<>>

IsAbs(p) == Len(p) > 0 /\ p[1] = "/"

\* os.path.join(a, b)
Join(a, b) == IF IsAbs(b) THEN b ELSE a \o <<"/">> \o b

\* the index of the last separator of p, 0 when it has none
LastSep(p) ==
    LET seps == {k \in 1..Len(p) : p[k] = "/" \/ p[k] \in Schemes}
    IN  IF seps = {} THEN 0 ELSE SetMax(seps)

\* os.path.basename(p)
Basename(p) == SubSeq(p, LastSep(p) + 1, Len(p))

\* os.path.splitext(p)[1], sep being the index of the last separator of p:
\* from the last dot of the basename, unless only dots precede it there
ExtFrom(p, sep) ==
    LET dots == {k \in (sep + 1)..Len(p) : p[k] = "."}
    IN  IF dots = {} THEN <<>>
        ELSE IF \E k \in (sep + 1)..(SetMax(dots) - 1) : p[k] # "."
            THEN SubSeq(p, SetMax(dots), Len(p))
        ELSE <<>>

SplitExt(p) == ExtFrom(p, LastSep(p))

\* the number of characters a token stands for
TokLen(tok) ==
    CASE tok = "jpg" -> 3
      [] tok = "png" -> 3
      [] tok = "image" -> 5
      [] tok = "media" -> 5
      [] tok = "output" -> 6
      [] tok = "picture" -> 7
      [] OTHER -> 1

RECURSIVE CharLen(_)
CharLen(s) == IF s = <<>> THEN 0 ELSE TokLen(Head(s)) + CharLen(Tail(s))

\* os.path.join(self.output_dir, 'media')
MediaDir == Join(OutputDir, <<"media">>)

\* the sessions of the web application that save images
Sessions == {1, 2}

\* the handler's locals in a session that is not saving
Idle == [pc |-> "idle", name |-> None, path |-> None, counter |-> 0,
         overlapped |-> FALSE]

NoUploads == [s \in Sessions |-> Idle]

(***************************************************************************)
(* _download_image_to_media                                                *)
(***************************************************************************)
\* the remote images of the model
UrlA == <<"http://", "h", "/", "a", ".", "jpg">>

UrlB == <<"https://", "h", "/", "b", "?", "v", ".", "picture">>

\* a URL whose path has no extension
UrlC == <<"https://", "h", "/", "c">>

\* hashlib.sha256(url).hexdigest()[:16] as one token, distinct per URL
HashTok(url) ==
    CASE url = UrlA -> "sha_a"
      [] url = UrlB -> "sha_b"
      [] url = UrlC -> "sha_c"
      [] OTHER -> "sha_other"

\* lines 351-354: the cache path of a URL whose extension is ext
CacheName(url, ext) ==
    Join(MediaDir,
         <<HashTok(url)>> \o (IF ext = <<>> \/ CharLen(ext) > 5
                                  THEN <<".", "png">> ELSE ext))

\* lines 350-354: the cache path of a URL
CachePath(url) == CacheName(url, SplitExt(Split(Split(url, "?")[1], "#")[1]))

\* what the environment does to one download: the request succeeds and the
\* file is written, the request fails, or the file is opened and writing fails
Outcomes == {"ok", "fetch_fail", "write_fail"}

\* a variant that does not look for the cached file
DownloadToNoCache(fs, url, path, outcome) ==
    IF outcome = "ok"
        THEN [ret |-> path, fs |-> fs \cup {path}, net |-> <<url>>]
    ELSE IF outcome = "write_fail"
        THEN [ret |-> None, fs |-> fs \cup {path}, net |-> <<url>>]
    ELSE [ret |-> None, fs |-> fs, net |-> <<url>>]

\* lines 355-363, path being the cache path of url
DownloadTo(fs, url, path, outcome) ==
    IF path \in fs THEN [ret |-> path, fs |-> fs, net |-> <<>>]
    ELSE IF outcome = "ok"
        THEN [ret |-> path, fs |-> fs \cup {path}, net |-> <<url>>]
    ELSE IF outcome = "write_fail"
        THEN [ret |-> None, fs |-> fs \cup {path}, net |-> <<url>>]
    ELSE [ret |-> None, fs |-> fs, net |-> <<url>>]

\* one call, on file system fs: the value returned (None on failure), the
\* file system after it and the requests made
Download(fs, url, outcome) == DownloadTo(fs, url, CachePath(url), outcome)

(***************************************************************************)
(* _preprocess_markdown_assets                                             *)
(***************************************************************************)
\* what the regular expression's \s matches
ReSpace == WS \cup {"\n"}

NoMatch == [e |-> 0, alt |-> <<>>, url |-> <<>>, title |-> <<>>]

\* the optional title and the closing parenthesis, the URL ending at e and
\* t being the first position after e that holds no white space (0 for none)
RemoteTitle(c, p, q, e, t) ==
    LET ends == {k \in (t + 1)..(Len(c) - 1) :
                    /\ c[k] = "\"" /\ c[k + 1] = ")"
                    /\ \A j \in (t + 1)..(k - 1) : c[j] # "\n"}
    IN  IF t > e + 1 /\ c[t] = "\"" /\ ends # {}
            THEN [e |-> SetMin(ends) + 1, alt |-> SubSeq(c, p + 2, q - 1),
                  url |-> SubSeq(c, q + 2, e),
                  title |-> SubSeq(c, t + 1, SetMin(ends) - 1)]
        ELSE IF e + 1 <= Len(c) /\ c[e + 1] = ")"
            THEN [e |-> e + 1, alt |-> SubSeq(c, p + 2, q - 1),
                  url |-> SubSeq(c, q + 2, e), title |-> <<>>]
        ELSE NoMatch

\* the first position from k on that holds no white space, 0 for none
FirstNonSpace(c, k) ==
    LET nonsp == {j \in k..Len(c) : c[j] \notin ReSpace}
    IN  IF nonsp = {} THEN 0 ELSE SetMin(nonsp)

\* the last position of the run of URL characters that starts at k
UrlEnd(c, k) ==
    LET stops == {j \in k..Len(c) : c[j] \in ReSpace \/ c[j] = ")"}
    IN  IF stops = {} THEN Len(c) ELSE SetMin(stops) - 1

\* the URL and what follows it, the alt text ending before q
RemoteUrl(c, p, q, e) ==
    IF q + 3 <= Len(c) /\ c[q + 1] = "(" /\ c[q + 2] \in Schemes /\ e >= q + 3
        THEN RemoteTitle(c, p, q, e, FirstNonSpace(c, e + 1))
    ELSE NoMatch

\* the match of the remote-image pattern of line 328 that starts at p, as
\* [e, alt, url, title] with e its last index; e = 0 when none starts there
RemoteAt(c, p) ==
    LET closes == {k \in (p + 2)..Len(c) : c[k] = "]"}
    IN  IF p + 1 <= Len(c) /\ c[p] = "!" /\ c[p + 1] = "[" /\ closes # {}
            THEN RemoteUrl(c, p, SetMin(closes), UrlEnd(c, SetMin(closes) + 3))
        ELSE NoMatch

\* the starts of the matches pattern.sub finds in c from position from on
RECURSIVE RemoteMatches(_, _)
MatchesAmong(c, starts) ==
    IF starts = {} THEN <<>>
    ELSE <<SetMin(starts)>> \o RemoteMatches(c, RemoteAt(c, SetMin(starts)).e + 1)

RemoteMatches(c, from) ==
    MatchesAmong(c, {p \in from..Len(c) : RemoteAt(c, p).e # 0})

\* repl, lines 330-340: what the match m, of text orig, is replaced by,
\* given what the download returned
Repl(m, orig, local) ==
    IF local = None THEN orig
    ELSE <<"!", "[">> \o (IF m.alt = <<>> THEN <<"image">> ELSE m.alt) \o <<"]", "(">>
             \o SubSeq(local, Len(OutputDir) + 2, Len(local))
             \o (IF m.title # <<>> THEN <<" ", "\"">> \o m.title \o <<"\"">> ELSE <<>>)
             \o <<")">>

\* a result of preprocessing: text and requests nt, followed by the result rest
Emit(text, nt, rest) ==
    [text |-> text \o rest.text, fs |-> rest.fs, net |-> nt \o rest.net]

\* pattern.sub(repl, c) from position from on, the k-th download meeting
\* outs[k]: the text, the file system and the requests made
RECURSIVE Preprocess(_, _, _, _)
PreprocessMatch(c, from, outs, p, m, d) ==
    Emit(SubSeq(c, from, p - 1) \o Repl(m, SubSeq(c, p, m.e), d.ret), d.net,
         Preprocess(c, m.e + 1, d.fs, Tail(outs)))

PreprocessFrom(c, from, fs, outs, ms) ==
    IF ms = <<>> THEN [text |-> SubSeq(c, from, Len(c)), fs |-> fs, net |-> <<>>]
    ELSE PreprocessMatch(c, from, outs, ms[1], RemoteAt(c, ms[1]),
                         Download(fs, RemoteAt(c, ms[1]).url, Head(outs)))

Preprocess(c, from, fs, outs) ==
    PreprocessFrom(c, from, fs, outs, RemoteMatches(c, from))

(***************************************************************************)
(* _add_image                                                              *)
(***************************************************************************)
\* the grey placeholder of lines 237-239 and 304-306
Placeholder(alt) ==
    Para("Normal",
         <<Run(<<"[", "pic:">> \o (IF alt = <<>> THEN <<"unnamed">> ELSE alt) \o <<"]">>,
               "grey")>>,
         "none")

\* the red placeholder of the except branch, lines 318-320
FailedPlaceholder(alt) ==
    Para("Normal",
         <<Run(<<"[", "failed:">> \o (IF alt = <<>> THEN <<"unnamed">> ELSE alt) \o <<"]">>,
               "red")>>,
         "none")

\* doc.add_picture(actual): a paragraph whose one run holds the picture
Picture(actual) ==
    Para("Normal", <<[text |-> <<>>, fmt |-> "picture", pic |-> actual]>>, "none")

\* the caption of lines 313-314
Caption(alt) == Para("Normal", <<Run(alt, "plain")>>, "center")

\* lines 244-299: the file a local image_path resolves to (None when it
\* resolves to none) and the file shutil.copy2 creates (None when it is not called)
Resolve(fs, path) ==
    LET c1 == path
        c2 == Join(OutputDir, path)
        byName == Join(MediaDir, Basename(path))
        nested == Join(MediaDir, path)
        found == [actual |-> None, copy |-> None]
    IN  IF c1 \in fs THEN [found EXCEPT !.actual = c1]
        ELSE IF c2 \in fs THEN [found EXCEPT !.actual = c2]
        ELSE IF IsAbs(path) THEN found
        ELSE IF byName \in fs THEN [found EXCEPT !.actual = byName]
        ELSE IF nested \in fs
            THEN IF byName # nested THEN [actual |-> byName, copy |-> byName]
                 ELSE [found EXCEPT !.actual = nested]
        ELSE found

\* the file system once shutil.copy2 has run, if the resolution r calls it
WithCopy(fs, r) == IF r.copy # None THEN fs \cup {r.copy} ELSE fs

\* lines 293-320, r being the resolution of the path on fs: picOk says
\* whether python-docx accepts the file as a picture (add_picture raises
\* otherwise), copyOk whether shutil.copy2 succeeds (it raises otherwise)
AddResolved(fs, nt, r, alt, picOk, copyOk) ==
    IF r.copy # None /\ ~copyOk
        THEN [paras |-> <<FailedPlaceholder(alt)>>, fs |-> fs, net |-> nt,
              found |-> TRUE]
    ELSE IF r.actual = None
        THEN [paras |-> <<Placeholder(alt)>>, fs |-> WithCopy(fs, r), net |-> nt,
              found |-> FALSE]
    ELSE IF ~picOk
        THEN [paras |-> <<FailedPlaceholder(alt)>>, fs |-> WithCopy(fs, r), net |-> nt,
              found |-> TRUE]
    ELSE [paras |-> <<Picture(r.actual)>>
                        \o (IF alt # <<>> THEN <<Caption(alt)>> ELSE <<>>),
          fs |-> WithCopy(fs, r), net |-> nt, found |-> TRUE]

\* lines 244-320 for a local path, the requests made so far being nt
AddLocal(fs, nt, path, alt, picOk, copyOk) ==
    AddResolved(fs, nt, Resolve(fs, path), alt, picOk, copyOk)

\* a variant that adds nothing when the download returned None
AddDownloadedSilent(d, alt, picOk, copyOk) ==
    IF d.ret = None THEN [paras |-> <<>>, fs |-> d.fs, net |-> d.net, found |-> FALSE]
    ELSE AddLocal(d.fs, d.net, d.ret, alt, picOk, copyOk)

\* lines 234-242, d being what the download returned
AddDownloaded(d, alt, picOk, copyOk) ==
    IF d.ret = None
        THEN [paras |-> <<Placeholder(alt)>>, fs |-> d.fs, net |-> d.net,
              found |-> FALSE]
    ELSE AddLocal(d.fs, d.net, d.ret, alt, picOk, copyOk)

\* _add_image(doc, path, alt): the paragraphs appended, the file system, the
\* requests made and whether the reference resolved to a file that exists;
\* outcome is what a download meets
AddImage(fs, path, alt, outcome, picOk, copyOk) ==
    IF Len(path) > 0 /\ path[1] \in Schemes
        THEN AddDownloaded(Download(fs, path, outcome), alt, picOk, copyOk)
    ELSE AddLocal(fs, <<>>, path, alt, picOk, copyOk)

(***************************************************************************)
(* markdown_to_word: how the main loop classifies a line                   *)
(***************************************************************************)
\* re.match of the image pattern of line 60 on the whole line: [ok, alt, path]
MatchImage(line) ==
    LET n == Len(line)
        no == [ok |-> FALSE, alt |-> <<>>, path |-> <<>>]
        \* the path and the optional title match line[k + 2 .. n - 1]
        RestOk(k) ==
            LET stops == {j \in (k + 2)..n : line[j] \in WS \/ line[j] = ")"}
                e == SetMin(stops) - 1
                nonsp == {j \in (e + 1)..n : line[j] \notin WS}
                t == SetMin(nonsp)
            IN  /\ e >= k + 2
                /\ \/ e = n - 1
                   \/ /\ t > e + 1
                      /\ line[t] = "\""
                      /\ t < n - 1
                      /\ line[n - 1] = "\""
        ks == {k \in 3..(n - 3) : line[k] = "]" /\ line[k + 1] = "(" /\ RestOk(k)}
    IN  IF n >= 6 /\ line[1] = "!" /\ line[2] = "[" /\ line[n] = ")" /\ ks # {}
            THEN LET k == SetMin(ks)
                     stops == {j \in (k + 2)..n : line[j] \in WS \/ line[j] = ")"}
                 IN  [ok |-> TRUE, alt |-> SubSeq(line, 3, k - 1),
                      path |-> SubSeq(line, k + 2, SetMin(stops) - 1)]
        ELSE no

\* the length of the match of ^\d+\. at the start of line, 0 for no match
OrderedPrefix(line) ==
    LET nondig == {k \in 1..Len(line) : line[k] \notin Digits}
        d == IF nondig = {} THEN Len(line) + 1 ELSE SetMin(nondig)
    IN  IF d >= 2 /\ d + 1 <= Len(line) /\ line[d] = "." /\ line[d + 1] = " "
            THEN d + 1 ELSE 0

\* a variant that forgets the space after the '#'
HashMarkerNoSpace(k) == [j \in 1..k |-> "#"]

\* k '#' and a space
HashMarker(k) == [j \in 1..(k + 1) |-> IF j <= k THEN "#" ELSE " "]

Fence == <<BQ, BQ, BQ>>

\* the branch of the main loop that lines 54-96 take for line idx of ls
Classify(ls, idx) ==
    LET line == Strip(ls[idx])
    IN  IF line = <<>> THEN "blank"
        ELSE IF MatchImage(line).ok THEN "image"
        ELSE IF /\ IsTableHeader(line)
                /\ idx + 1 <= Len(ls)
                /\ IsTableSeparator(Strip(ls[idx + 1])) THEN "table"
        ELSE IF StartsWith(line, HashMarker(1)) THEN "h1"
        ELSE IF StartsWith(line, HashMarker(2)) THEN "h2"
        ELSE IF StartsWith(line, HashMarker(3)) THEN "h3"
        ELSE IF StartsWith(line, HashMarker(4)) THEN "h4"
        ELSE IF StartsWith(line, <<"-", " ">>) \/ StartsWith(line, <<"*", " ">>) THEN "ul"
        ELSE IF OrderedPrefix(line) # 0 THEN "ol"
        ELSE IF StartsWith(line, <<">", " ">>) THEN "quote"
        ELSE IF StartsWith(line, Fence) THEN "fence"
        ELSE "para"

(***************************************************************************)
(* _add_table_block                                                        *)
(***************************************************************************)
\* a variant that only looks at the '|' of a row, not at its cell count
StopsTableAnyWidth(ls, headers, j) ==
    \/ ~StartsWith(Strip(ls[j]), <<"|">>)
    \/ ~(\E k \in 2..Len(Strip(ls[j])) : Strip(ls[j])[k] = "|")

\* a variant that returns the index of the header again
TableEndStuck(ls, start) == start

\* the loop of lines 202-210 stops at row j
StopsTable(ls, headers, j) ==
    LET row == Strip(ls[j])
    IN  \/ ~StartsWith(row, <<"|">>)
        \/ ~(\E k \in 2..Len(row) : row[k] = "|")
        \/ Len(RowCells(row)) # Len(headers)

\* the index the data rows end before: the first row that stops the loop,
\* or one past the last line
TableEnd(ls, start) ==
    LET headers == RowCells(Strip(ls[start]))
        stops == {j \in (start + 2)..Len(ls) : StopsTable(ls, headers, j)}
    IN  IF stops = {} THEN Len(ls) + 1 ELSE SetMin(stops)

\* the table of lines 212-222: the header row, then one row per data row
TableBlock(ls, start) ==
    LET headers == RowCells(Strip(ls[start]))
        cols == IF Len(headers) >= 1 THEN Len(headers) ELSE 1
        stop == TableEnd(ls, start)
        RowOf(cells) == [c \in 1..cols |-> IF c <= Len(cells) THEN Cell(cells[c])
                                           ELSE Cell(<<>>)]
    IN  Table([r \in 1..(stop - start - 1) |->
                  IF r = 1 THEN RowOf(headers)
                  ELSE RowOf(RowCells(Strip(ls[start + r])))])

(***************************************************************************)
(* The inputs of the model                                                 *)
(***************************************************************************)
\* the longest input built from one family of lines
MaxLines == 4

\* the longest input that mixes all the lines of the model
MaxMixed == 2

LBlank == <<>>
LSpaces == <<" ", " ">>
LH1 == <<"#", " ", "Title">>
LH2 == <<"#", "#", " ", "Sub", " ", "title">>
LH3 == <<"#", "#", "#", " ", "T">>
LH4 == <<" ", "#", "#", "#", "#", " ", "Title", " ">>
LH5 == <<"#", "#", "#", "#", "#", " ", "T">>
LNoSpace == <<"#", "#", "Title">>
LHashOnly == <<"#", " ">>
LUl == <<"-", " ", "item">>
LUlStar == <<"*", " ", "*", "*", "b", "*", "*">>
LOl == <<"1", "2", ".", " ", "item">>
LQuote == <<">", " ", "said">>
LPara == <<"plain", " ", "text">>
LInline == <<"*", "*", "b", "*", "*", " ", "*", "i", "*", " ", BQ, "c", BQ, " ", "*">>
LCodeStar == <<BQ, "c", BQ, "*">>
LFence == <<BQ, BQ, BQ, "python">>
LFenceEnd == <<" ", BQ, BQ, BQ>>
THeader == <<"|", " ", "A", " ", "|", " ", "B", " ", "|">>
TSep == <<"|", "-", "-", "-", "|", ":", "-", "-", "-", ":", "|">>
TBadSep == <<"|", "-", "-", "|", "-", "-", "-", "|">>
TRow2 == <<"|", "1", "|", " ", "2", " ", "\t", "x", " ", "|">>
TRow3 == <<"|", " ", "1", " ", "|", " ", "2", " ", "|", " ", "3", " ", "|">>
TOpen == <<"|", " ", "a", " ", "|", " ", "b">>
TEmpty == <<"|", "|">>
ILocal == <<"!", "[", "cap", "]", "(", "x", ".", "png", ")">>
IMissing == <<"!", "[", "]", "(", "gone", ".", "png", ")">>
INested == <<"!", "[", "n", "]", "(", "sub", "/", "n", ".", "png", ")">>
IRemote == <<"!", "[", "r", "]", "(">> \o UrlA \o <<")">>
IRemoteTitled == <<"see", " ", "!", "[", "]", "(">> \o UrlB \o <<" ", "\"", "t", "\"", ")">>
IRemoteNoAlt == <<"!", "[", "]", "(">> \o UrlC \o <<")">>

TableLines == {THeader, TSep, TRow2, TRow3, TEmpty, LPara}

FenceLines == {LFence, LFenceEnd, LH1, THeader, LBlank}

AllLines ==
    {LBlank, LSpaces, LH1, LH2, LH3, LH4, LH5, LNoSpace, LHashOnly, LUl, LUlStar,
     LOl, LQuote, LPara, LInline, LFence, LFenceEnd, THeader, TSep, TBadSep, TRow2,
     TRow3, TOpen, ILocal, IMissing, INested, IRemote, IRemoteTitled, IRemoteNoAlt,
     LCodeStar}

SeqsUpTo(S, n) == UNION {[1..k -> S] : k \in 0..n}

\* the inputs as sequences of lines
InputDocs ==
    SeqsUpTo(TableLines, MaxLines) \cup SeqsUpTo(FenceLines, MaxLines)
        \cup SeqsUpTo(AllLines, MaxMixed)

\* "\n".join(ls)
RECURSIVE JoinLines(_)
JoinLines(ls) ==
    IF ls = <<>> THEN <<>>
    ELSE IF Len(ls) = 1 THEN ls[1]
    ELSE ls[1] \o <<"\n">> \o JoinLines(Tail(ls))

\* the file names a caller passes as output_filename; None for none
OutArgs == {None, <<"report">>, <<"report", ".", "docx">>}

\* the files that exist before the call
InitialFiles ==
    {Join(MediaDir, <<"x", ".", "png">>),
     Join(MediaDir, <<"sub", "/", "n", ".", "png">>)}

(***************************************************************************)
(* markdown_to_word                                                        *)
(***************************************************************************)
\* ln.rstrip('\r')
RStripCR(ln) ==
    LET keep == {k \in 1..Len(ln) : ln[k] # "\r"}
    IN  IF keep = {} THEN <<>> ELSE SubSeq(ln, 1, SetMax(keep))

\* line 51
SplitLines(c) ==
    LET split == Split(c, "\n")
    IN  [k \in 1..Len(split) |-> RStripCR(split[k])]

\* the record of one iteration: it read lines from .. to - 1 and appended
\* `added` elements after the first `at` elements of the document; found
\* says, of an image line, whether its reference resolved to a file
Iter(from, to, kind, at, added, found) ==
    [from |-> from, to |-> to, kind |-> kind, at |-> at, added |-> added,
     found |-> found]

\* one iteration of the loop that appends paras and moves the index to next
StepFound(kind, paras, next, found) ==
    /\ doc' = doc \o paras
    /\ i' = next
    /\ iters' = Append(iters, Iter(i, next, kind, Len(doc), Len(paras), found))
    /\ UNCHANGED <<pc, md, outArg, lines, ret, parts, mdOut, calls, result, upload>>

Step(kind, paras, next) == StepFound(kind, paras, next, FALSE)

\* lines 44 and 51: pre is what _preprocess_markdown_assets came to
Preprocessed(pre) ==
    /\ lines' = SplitLines(pre.text)
    /\ files' = pre.fs
    /\ net' = net \o pre.net

\* lines 44-52: the assets are preprocessed and the text is split in lines
Start ==
    /\ pc = "start"
    /\ \E outs \in [1..Len(RemoteMatches(md, 1)) -> Outcomes] :
          Preprocessed(Preprocess(md, 1, files, outs))
    /\ pc' = "scan"
    /\ i' = 1
    /\ doc' = <<>>
    /\ UNCHANGED <<md, outArg, iters, ret, parts, mdOut, calls, result, upload>>

InLoop(kind) == pc = "scan" /\ i <= Len(lines) /\ Classify(lines, i) = kind

\* lines 55-58
BlankLine ==
    /\ InLoop("blank")
    /\ Step("blank", <<EmptyPara>>, i + 1)
    /\ UNCHANGED <<files, net>>

\* lines 64-66: a is what _add_image came to
ImageAdded(a) ==
    /\ StepFound("image", a.paras, i + 1, a.found)
    /\ files' = a.fs
    /\ net' = net \o a.net

\* lines 60-66
ImageLine ==
    /\ InLoop("image")
    /\ \E outcome \in Outcomes, picOk \in BOOLEAN, copyOk \in BOOLEAN :
          ImageAdded(AddImage(files, MatchImage(Strip(lines[i])).path,
                              MatchImage(Strip(lines[i])).alt, outcome, picOk, copyOk))

\* lines 68-70
TableLine ==
    /\ InLoop("table")
    /\ Step("table", <<TableBlock(lines, i)>>, TableEnd(lines, i))
    /\ UNCHANGED <<files, net>>

\* lines 71-82
HeadingLine ==
    /\ \E k \in 1..4 :
          /\ InLoop(<<"h1", "h2", "h3", "h4">>[k])
          /\ Step("heading", <<AddHeading(From(Strip(lines[i]), k + 1), k)>>, i + 1)
    /\ UNCHANGED <<files, net>>

\* lines 83-86
ListLine ==
    /\ \/ /\ InLoop("ul")
          /\ Step("list", <<AddListItem(From(Strip(lines[i]), 2), FALSE)>>, i + 1)
       \/ /\ InLoop("ol")
          /\ Step("list",
                  <<AddListItem(From(Strip(lines[i]), OrderedPrefix(Strip(lines[i]))),
                                TRUE)>>,
                  i + 1)
    /\ UNCHANGED <<files, net>>

\* lines 87-88
QuoteLine ==
    /\ InLoop("quote")
    /\ Step("quote", <<AddQuote(From(Strip(lines[i]), 2))>>, i + 1)
    /\ UNCHANGED <<files, net>>

\* a variant that compares the line as it is, not stripped
FenceEndUnstripped(ls, start) ==
    LET ends == {j \in (start + 1)..Len(ls) : StartsWith(ls[j], Fence)}
    IN  IF ends = {} THEN Len(ls) + 1 ELSE SetMin(ends)

\* the line the inner loop of lines 92-94 stops at: the next line that
\* starts with the fence once stripped, or one past the last line
FenceEnd(ls, start) ==
    LET ends == {j \in (start + 1)..Len(ls) : StartsWith(Strip(ls[j]), Fence)}
    IN  IF ends = {} THEN Len(ls) + 1 ELSE SetMin(ends)

\* lines 89-94 and 97
FenceLine ==
    /\ InLoop("fence")
    /\ LET stop == FenceEnd(lines, i)
       IN  Step("fence",
                [k \in 1..(stop - i - 1) |-> AddParagraph(lines[i + k])],
                stop + 1)
    /\ UNCHANGED <<files, net>>

\* lines 95-96
ParagraphLine ==
    /\ InLoop("para")
    /\ Step("para", <<AddParagraph(Strip(lines[i]))>>, i + 1)
    /\ UNCHANGED <<files, net>>

\* a variant that appends the extension to every name given
OutputNameAlwaysAppend(name) ==
    IF name = None THEN <<"converted_document_", "timestamp", ".", "docx">>
    ELSE name \o <<".", "docx">>

\* lines 100-105
OutputName(name) ==
    IF name = None THEN <<"converted_document_", "timestamp", ".", "docx">>
    ELSE IF ~EndsWith(name, <<".", "docx">>) THEN name \o <<".", "docx">>
    ELSE name

\* the values of output_filename: what the wrapper that made the call
\* passed, or one of the names a caller passes
SaveNames == IF calls # <<>> THEN {outArg} ELSE OutArgs

\* lines 99-116: the loop is over, the document is saved; doc.save may raise
Save ==
    /\ pc = "scan"
    /\ i > Len(lines)
    /\ \E name \in SaveNames, saved \in BOOLEAN :
          /\ outArg' = name
          /\ IF saved
                THEN /\ files' = files \cup {Join(OutputDir, OutputName(name))}
                     /\ ret' = Join(OutputDir, OutputName(name))
                     /\ pc' = "done"
                ELSE /\ files' = files
                     /\ ret' = None
                     /\ pc' = "raised"
    /\ UNCHANGED <<md, lines, i, doc, net, iters, parts, mdOut, calls, result, upload>>

Init ==
    /\ pc = "start"
    /\ md \in {JoinLines(ls) : ls \in InputDocs}
    /\ outArg = None
    /\ lines = <<>>
    /\ i = 0
    /\ doc = <<>>
    /\ files = InitialFiles
    /\ net = <<>>
    /\ iters = <<>>
    /\ ret = None
    /\ parts = <<>>
    /\ mdOut = None
    /\ calls = <<>>
    /\ result = None
    /\ upload = NoUploads

Next ==
    \/ Start
    \/ BlankLine
    \/ ImageLine
    \/ TableLine
    \/ HeadingLine
    \/ ListLine
    \/ QuoteLine
    \/ FenceLine
    \/ ParagraphLine
    \/ Save

Spec == Init /\ [][Next]_vars

(***************************************************************************)
(* word_to_markdown: the paragraph and table converters                    *)
(***************************************************************************)
\* sep.join(ss)
RECURSIVE JoinWith(_, _)
JoinWith(ss, sep) ==
    IF ss = <<>> THEN <<>>
    ELSE IF Len(ss) = 1 THEN ss[1]
    ELSE ss[1] \o sep \o JoinWith(Tail(ss), sep)

\* s.strip() == "", and `not (s and s.strip())`
IsBlank(s) == \A k \in 1..Len(s) : s[k] \in ReSpace

\* the level n of the style "Heading n", 0 for any other style
HeadingLevel(style) ==
    IF \E n \in 1..9 : HeadingStyle(n) = style
        THEN CHOOSE n \in 1..9 : HeadingStyle(n) = style
    ELSE 0

\* "quote" in style_name
IsQuoteStyle(style) == style \in {"Quote", "Intense Quote"}

\* the time stamp of the k-th paragraph's image file
Stamp(k) ==
    CASE k = 1 -> "t1" [] k = 2 -> "t2" [] k = 3 -> "t3" [] k = 4 -> "t4"
      [] k = 5 -> "t5" [] OTHER -> "t6"

\* whether a run of the paragraph holds a picture
HasPicture(para) == \E k \in 1..Len(para.runs) : para.runs[k].fmt = "picture"

\* the picture of the first run that holds one
FirstPicture(para) ==
    para.runs[SetMin({k \in 1..Len(para.runs) : para.runs[k].fmt = "picture"})].pic

\* lines 750-753: the name of the file the image of paragraph k is written to
ExtractedName(ext, k) ==
    <<"extracted_", Stamp(k)>> \o (IF ext = <<>> THEN <<".", "png">> ELSE ext)

\* _extract_images_from_paragraph for paragraph k: the Markdown returned
\* (<<>> for "" and None) and the file written (None for none); ok says
\* whether the image part is read and written without an exception
ExtractImagesFromParagraph(para, k, ok) ==
    IF HasPicture(para) /\ ok
        THEN [md |-> <<"!", "[", "image", "]", "(">>
                        \o ExtractedName(SplitExt(Basename(FirstPicture(para))), k)
                        \o <<")">>,
              file |-> Join(OutputDir,
                            ExtractedName(SplitExt(Basename(FirstPicture(para))), k))]
    ELSE [md |-> <<>>, file |-> None]

\* _extract_images_from_xml: Paragraph(block, None) has no parent, the
\* lookup of its part raises and the exception is swallowed
ExtractImagesFromXml(para) == <<>>

\* lines 597-618: the list item of a paragraph with numbering properties
ListItemMd(numPr, text) ==
    Concat([k \in 1..numPr.ilvl |-> <<" ", " ">>])
        \o (IF numPr.numId # 1 THEN <<"1", ".", " ">> ELSE <<"-", " ">>)
        \o text

\* a variant that looks at the numbering before the heading style
ParagraphTextMdListFirst(para, text) ==
    IF IsBlank(text) THEN <<>>
    ELSE IF para.numPr.present THEN ListItemMd(para.numPr, text)
    ELSE IF HeadingLevel(para.style) \in 1..5
        THEN [k \in 1..HeadingLevel(para.style) |-> "#"] \o <<" ">> \o text
    ELSE IF IsQuoteStyle(para.style) THEN <<">", " ">> \o text
    ELSE text

\* lines 586-624, text being paragraph.text
ParagraphTextMd(para, text) ==
    IF IsBlank(text) THEN <<>>
    ELSE IF HeadingLevel(para.style) \in 1..5
        THEN [k \in 1..HeadingLevel(para.style) |-> "#"] \o <<" ">> \o text
    ELSE IF para.numPr.present THEN ListItemMd(para.numPr, text)
    ELSE IF IsQuoteStyle(para.style) THEN <<">", " ">> \o text
    ELSE text

\* _paragraph_to_markdown_full, img being what the image extraction returned
ParagraphToMarkdownFull(para, img) ==
    IF img.md # <<>> THEN img.md ELSE ParagraphTextMd(para, ParaText(para))

\* a variant that removes the white space instead of normalising it
CleanCellTextNoSpace(text) == SelectSeq(text, LAMBDA tok : tok \notin ReSpace)

\* _clean_cell_text: " ".join(text.split())
CleanCellText(text) ==
    Concat([k \in 1..Len(text) |->
               IF text[k] \in ReSpace THEN <<>>
               ELSE IF k > 1 /\ text[k - 1] \in ReSpace
                           /\ \E j \in 1..(k - 1) : text[j] \notin ReSpace
                   THEN <<" ", text[k]>>
               ELSE <<text[k]>>])

\* the number of grid columns a cell element spans
GridSpan(tc) == IF tc.gridSpan = 0 THEN 1 ELSE tc.gridSpan

\* the cell elements of a row, one entry per grid column
RECURSIVE GridOfRow(_)
GridOfRow(row) ==
    IF row = <<>> THEN <<>>
    ELSE [k \in 1..GridSpan(Head(row)) |-> Head(row)] \o GridOfRow(Tail(row))

\* python-docx row.cells[g]: a cell that continues a vertical merge is the
\* cell above it, a cell that spans columns is repeated for each of them
RECURSIVE CellAt(_, _, _)
CellAt(tbl, r, g) ==
    IF GridOfRow(tbl.rows[r])[g].vMerge = "continue" /\ r > 1
        THEN CellAt(tbl, r - 1, g)
    ELSE GridOfRow(tbl.rows[r])[g]

\* row.cells of row r
RowCellsOf(tbl, r) == [g \in 1..Len(GridOfRow(tbl.rows[r])) |-> CellAt(tbl, r, g)]

\* "| " + " | ".join(cells) + " |"
MdRow(cells) == <<"|", " ">> \o JoinWith(cells, <<" ", "|", " ">>) \o <<" ", "|">>

\* lines 649-651: the cleaned texts of the cells of row r
CleanRow(tbl, r) ==
    [g \in 1..Len(GridOfRow(tbl.rows[r])) |-> CleanCellText(CellAt(tbl, r, g).text)]

\* lines 647-661: the k-th line of the table's Markdown
TableMdLine(tbl, k) ==
    IF k = 2 THEN MdRow([g \in 1..Len(GridOfRow(tbl.rows[1])) |-> <<"-", "-", "-">>])
    ELSE MdRow(CleanRow(tbl, IF k = 1 THEN 1 ELSE k - 1))

\* _table_to_markdown_full
TableToMarkdownFull(tbl) ==
    IF tbl.rows = <<>> THEN <<>>
    ELSE JoinWith([k \in 1..(Len(tbl.rows) + 1) |-> TableMdLine(tbl, k)], <<"\n">>)

\* lines 714-725: the hints of a cell element
MergeHints(tc) ==
    (IF tc.gridSpan # 0 THEN << <<"colspan=", "n">> >> ELSE <<>>)
        \o (IF tc.vMerge = "continue" THEN << <<"rowspan=", "continue">> >>
            ELSE IF tc.vMerge = "restart" THEN << <<"rowspan=", "start">> >>
            ELSE <<>>)

\* _cell_text_with_merge_hint, which no caller reaches from word_to_markdown;
\* "n" stands for the span, which is 2 in every table of the model
CellTextWithMergeHint(tc) ==
    IF MergeHints(tc) # <<>>
        THEN Strip(tc.text) \o <<" ", "<">> \o JoinWith(MergeHints(tc), <<" ">>) \o <<">">>
    ELSE Strip(tc.text)

(***************************************************************************)
(* word_to_markdown and _extract_content_from_doc                          *)
(***************************************************************************)
\* the indices of the body elements of one kind, in document order:
\* doc.paragraphs for "p", doc.tables for "tbl"
IndicesOf(body, kind) ==
    LET S == {k \in 1..Len(body) : body[k].t = kind}
    IN  [j \in 1..Cardinality(S) |->
            CHOOSE k \in S : Cardinality({m \in S : m < k}) = j - 1]

\* the body indices of the paragraphs that hold a picture
PicParas(body) == {k \in 1..Len(body) : body[k].t = "p" /\ HasPicture(body[k])}

\* a fragment of parts, with the body element it was made from
Fragment(src, kind, text) == [src |-> src, kind |-> kind, text |-> text]

\* lines 476-479, idx being doc.paragraphs
ParaParts(body, idx, oks) ==
    SelectSeq([j \in 1..Len(idx) |->
                  Fragment(idx[j], "p",
                           ParagraphToMarkdownFull(
                               body[idx[j]],
                               ExtractImagesFromParagraph(
                                   body[idx[j]], idx[j],
                                   idx[j] \in DOMAIN oks /\ oks[idx[j]])))],
              LAMBDA f : ~IsBlank(f.text))

\* lines 482-485, idx being doc.tables
TableParts(body, idx) ==
    SelectSeq([j \in 1..Len(idx) |->
                  Fragment(idx[j], "tbl", TableToMarkdownFull(body[idx[j]]))],
              LAMBDA f : ~IsBlank(f.text))

\* lines 488-492, idx being the paragraphs of doc.element.body
XmlImageParts(body, idx) ==
    SelectSeq([j \in 1..Len(idx) |->
                  Fragment(idx[j], "img", ExtractImagesFromXml(body[idx[j]]))],
              LAMBDA f : ~IsBlank(f.text))

\* lines 473-492: the fragments, the paragraphs first, then the tables
ExtractParts(body, oks) ==
    ParaParts(body, IndicesOf(body, "p"), oks)
        \o TableParts(body, IndicesOf(body, "tbl"))
        \o XmlImageParts(body, IndicesOf(body, "p"))

\* the image files the extraction of the paragraphs writes
ExtractedFiles(body, oks) ==
    {ExtractImagesFromParagraph(body[k], k, TRUE).file : k \in {j \in DOMAIN oks : oks[j]}}

\* a variant that puts the fragments on consecutive lines
JoinPartsNoBlankLine(ps) == JoinWith([k \in 1..Len(ps) |-> ps[k].text], <<"\n">>)

\* lines 494: the returned text
JoinParts(ps) == JoinWith([k \in 1..Len(ps) |-> ps[k].text], <<"\n", "\n">>)

\* a path no file is at
MissingDocx == Join(OutputDir, <<"absent", ".", "docx">>)

\* _extract_content_from_doc returned the fragments ps
Extracted(ps, written) ==
    /\ parts' = ps
    /\ mdOut' = JoinParts(ps)
    /\ files' = files \cup written
    /\ pc' = "extracted"

\* one entry of the history of calls
Call(fn, arg, outcome) == [fn |-> fn, arg |-> arg, ret |-> outcome]

\* a variant that loads the document without looking for the file
NativeExtractUnchecked(path) ==
    \E oks \in [PicParas(doc) -> BOOLEAN] :
        Extracted(ExtractParts(doc, oks), ExtractedFiles(doc, oks))

\* lines 419-426: word_to_markdown(path) raises for a path that is no file
\* and extracts the document otherwise
NativeExtract(path) ==
    IF path \notin files
        THEN /\ pc' = "extract_raised"
             /\ UNCHANGED <<parts, mdOut, files>>
    ELSE \E oks \in [PicParas(doc) -> BOOLEAN] :
            Extracted(ExtractParts(doc, oks), ExtractedFiles(doc, oks))

\* lines 438-460: the temporary file is written, read and removed again
NativeExtractFromBytes ==
    \E oks \in [PicParas(doc) -> BOOLEAN] :
        Extracted(ExtractParts(doc, oks), ExtractedFiles(doc, oks))

\* word_to_markdown(docx_path), for the document a conversion saved and for
\* a path that is no file
WordToMarkdown ==
    /\ pc = "done"
    /\ \E path \in {ret, MissingDocx} :
          /\ NativeExtract(path)
          /\ calls' = Append(calls, Call("word_to_markdown", path, None))
    /\ UNCHANGED <<md, outArg, lines, i, doc, net, iters, ret, result, upload>>

\* word_to_markdown_from_bytes(docx_bytes), for the bytes of the document
WordToMarkdownFromBytes ==
    /\ pc = "done"
    /\ NativeExtractFromBytes
    /\ calls' = Append(calls, Call("word_to_markdown_from_bytes", ret, None))
    /\ UNCHANGED <<md, outArg, lines, i, doc, net, iters, ret, result, upload>>

(***************************************************************************)
(* The documents handed to word_to_markdown                                *)
(***************************************************************************)
\* the longest body of a document that was not built by markdown_to_word
MaxBody == 2

RHeading1 == AddHeading(<<"T">>, 1)

RHeading5 == AddHeading(<<"T">>, 5)

RHeading6 == AddHeading(<<"T">>, 6)

RBullet ==
    [Para("List Paragraph", <<Run(<<"item">>, "plain")>>, "none")
        EXCEPT !.numPr = [present |-> TRUE, ilvl |-> 0, numId |-> 1]]

RNumbered ==
    [Para("List Paragraph", <<Run(<<"item">>, "plain")>>, "none")
        EXCEPT !.numPr = [present |-> TRUE, ilvl |-> 1, numId |-> 2]]

RQuote == AddQuote(<<"said">>)

RPlain == AddParagraph(LPara)

RPicture == Picture(Join(MediaDir, <<"x", ".", "png">>))

\* a paragraph that holds a picture and a text
RPictureText ==
    Para("Normal",
         <<[text |-> <<>>, fmt |-> "picture", pic |-> Join(MediaDir, <<"x", ".", "png">>)],
           Run(<<"beside">>, "plain")>>,
         "none")

RTable == TableBlock(<<THeader, TSep, TRow2>>, 1)

\* a table whose header cell spans its two columns
RSpanTable ==
    Table(<< <<[Cell(<<"H">>) EXCEPT !.gridSpan = 2]>>,
             <<Cell(<<"a">>), Cell(<<"b">>)>> >>)

\* a table whose first column is one cell merged over its two rows
RMergeTable ==
    Table(<< <<[Cell(<<"top">>) EXCEPT !.vMerge = "restart"], Cell(<<"x">>)>>,
             <<[Cell(<<>>) EXCEPT !.vMerge = "continue"], Cell(<<"y">>)>> >>)

\* a heading and a quote that carry numbering properties
RHeadingNumbered ==
    [AddHeading(<<"T">>, 2) EXCEPT !.numPr = [present |-> TRUE, ilvl |-> 0, numId |-> 1]]

RQuoteNumbered ==
    [AddQuote(<<"said">>) EXCEPT !.numPr = [present |-> TRUE, ilvl |-> 1, numId |-> 2]]

BodyElements ==
    {RHeading1, RHeading5, RHeading6, RBullet, RNumbered, RQuote, RPlain,
     EmptyPara, RPicture, RPictureText, RTable, RSpanTable, RMergeTable,
     RHeadingNumbered, RQuoteNumbered}

\* the path of a document a caller hands to word_to_markdown
UploadedDocx == Join(OutputDir, <<"uploaded", ".", "docx">>)

\* a document is on disk and nothing has been called yet
InitReverse ==
    /\ pc = "done"
    /\ doc \in SeqsUpTo(BodyElements, MaxBody)
    /\ ret = UploadedDocx
    /\ files = InitialFiles \cup {UploadedDocx}
    /\ md = <<>>
    /\ outArg = None
    /\ lines = <<>>
    /\ i = 0
    /\ net = <<>>
    /\ iters = <<>>
    /\ parts = <<>>
    /\ mdOut = None
    /\ calls = <<>>
    /\ result = None
    /\ upload = NoUploads

NextReverse ==
    \/ WordToMarkdown
    \/ WordToMarkdownFromBytes

\* word_to_markdown on the documents above
SpecReverse == InitReverse /\ [][NextReverse]_vars

NextRound ==
    \/ Next
    \/ WordToMarkdown
    \/ WordToMarkdownFromBytes

\* markdown_to_word, then word_to_markdown on the document it saved
SpecRound == Init /\ [][NextRound]_vars

(***************************************************************************)
(* _download_image_to_media, called again and again                        *)
(***************************************************************************)
\* the most calls of _download_image_to_media in one behaviour
MaxCalls == 3

Urls == {UrlA, UrlB, UrlC}

\* the call returned: its record in the history
Downloaded(url, d) ==
    /\ files' = d.fs
    /\ net' = net \o d.net
    /\ calls' = Append(calls, [fn |-> "_download_image_to_media", arg |-> url,
                               ret |-> d.ret, fetched |-> Len(d.net)])

\* one call of _download_image_to_media(url)
DownloadImageToMedia ==
    /\ pc = "assets"
    /\ Len(calls) < MaxCalls
    /\ \E url \in Urls, outcome \in Outcomes :
          Downloaded(url, Download(files, url, outcome))
    /\ UNCHANGED <<pc, md, outArg, lines, i, doc, iters, ret, parts, mdOut, result, upload>>

InitAssets ==
    /\ pc = "assets"
    /\ files \in {InitialFiles, InitialFiles \cup {CachePath(UrlB)}}
    /\ net = <<>>
    /\ calls = <<>>
    /\ result = None
    /\ upload = NoUploads
    /\ md = <<>>
    /\ outArg = None
    /\ lines = <<>>
    /\ i = 0
    /\ doc = <<>>
    /\ iters = <<>>
    /\ ret = None
    /\ parts = <<>>
    /\ mdOut = None

NextAssets == DownloadImageToMedia

SpecAssets == InitAssets /\ [][NextAssets]_vars

(***************************************************************************)
(* The Pandoc wrappers                                                     *)
(***************************************************************************)
\* the longest Markdown text handed to markdown_to_word_pandoc, in lines
MaxPandocLines == 1

PandocDocs == SeqsUpTo(AllLines, MaxPandocLines) \cup {<<THeader, TSep, TRow2>>}

\* where a call of a wrapper fails, if it does: at the import of pypandoc,
\* at os.makedirs, in the conversion itself, or nowhere
PandocStages == {"import_error", "makedirs_error", "convert_error", "ok"}

\* what pypandoc.convert_file returns, the media directory made relative
PandocMarkdown == <<"pandoc", " ", "markdown">>

\* a variant that appends the suffix whatever the name is
PandocOutputNameAppend(name) == name \o <<".", "docx">>

\* lines 125-129
PandocOutputName(name) ==
    IF name = None THEN <<"converted_document_", "timestamp", ".", "docx">>
    ELSE IF ~EndsWith(name, <<".", "docx">>) THEN name \o <<".", "docx">>
    ELSE name

\* lines 148-152: the fallback calls markdown_to_word(content, name), whose
\* run is the run of Start, the line actions and Save
FallBackToNative(content, name, log) ==
    /\ md' = content
    /\ outArg' = name
    /\ calls' = Append(log, Call("markdown_to_word", name, None))
    /\ pc' = "start"
    /\ ret' = None

\* lines 124-146, pre being what _preprocess_markdown_assets came to and
\* path the output path
PandocConvertText(pre, name, path, stage) ==
    /\ files' = IF stage = "ok" THEN pre.fs \cup {path} ELSE pre.fs
    /\ net' = net \o pre.net
    /\ IF stage = "ok"
          THEN /\ calls' = calls \o <<Call("markdown_to_word_pandoc", outArg, None),
                                      Call("pypandoc.convert_text", path, "ok")>>
               /\ ret' = path
               /\ pc' = "done"
               /\ UNCHANGED <<md, outArg>>
          ELSE FallBackToNative(pre.text, name,
                                calls \o <<Call("markdown_to_word_pandoc", outArg, None),
                                           Call("pypandoc.convert_text", path, "raised")>>)

\* markdown_to_word_pandoc(md, outArg)
MarkdownToWordPandoc ==
    /\ pc = "call_m2w"
    /\ \E stage \in PandocStages :
          IF stage \in {"import_error", "makedirs_error"}
              THEN /\ FallBackToNative(md, outArg,
                                       Append(calls, Call("markdown_to_word_pandoc",
                                                          outArg, None)))
                   /\ UNCHANGED <<files, net>>
          ELSE \E outs \in [1..Len(RemoteMatches(md, 1)) -> Outcomes] :
                  PandocConvertText(Preprocess(md, 1, files, outs),
                                    PandocOutputName(outArg),
                                    Join(OutputDir, PandocOutputName(outArg)), stage)
    /\ UNCHANGED <<lines, i, doc, iters, parts, mdOut, result, upload>>

\* lines 510-517 and 550-558: Pandoc returned its Markdown
PandocExtracted(log) ==
    /\ mdOut' = PandocMarkdown
    /\ pc' = "extracted"
    /\ calls' = Append(log, Call("pypandoc.convert_file", ret, "ok"))
    /\ UNCHANGED <<parts, files>>

\* word_to_markdown_pandoc(ret): the import may fail, the path may be no
\* file, the conversion may raise
WordToMarkdownPandoc ==
    /\ pc = "call_w2m"
    /\ \E stage \in PandocStages \ {"makedirs_error"} :
          IF stage = "import_error" \/ ret \notin files
              THEN /\ NativeExtract(ret)
                   /\ calls' = calls \o <<Call("word_to_markdown_pandoc", ret, None),
                                          Call("word_to_markdown", ret, None)>>
          ELSE IF stage = "convert_error"
              THEN /\ NativeExtract(ret)
                   /\ calls' = calls \o <<Call("word_to_markdown_pandoc", ret, None),
                                          Call("pypandoc.convert_file", ret, "raised"),
                                          Call("word_to_markdown", ret, None)>>
          ELSE PandocExtracted(Append(calls, Call("word_to_markdown_pandoc", ret, None)))
    /\ UNCHANGED <<md, outArg, lines, i, doc, net, iters, ret, result, upload>>

\* word_to_markdown_pandoc_from_bytes(bytes), ret standing for the bytes
WordToMarkdownPandocFromBytes ==
    /\ pc = "call_w2m"
    /\ ret \in files
    /\ \E stage \in PandocStages \ {"makedirs_error"} :
          IF stage = "import_error"
              THEN /\ NativeExtractFromBytes
                   /\ calls' = calls \o <<Call("word_to_markdown_pandoc_from_bytes", ret, None),
                                          Call("word_to_markdown_from_bytes", ret, None)>>
          ELSE IF stage = "convert_error"
              THEN /\ NativeExtractFromBytes
                   /\ calls' = calls \o <<Call("word_to_markdown_pandoc_from_bytes", ret, None),
                                          Call("pypandoc.convert_file", ret, "raised"),
                                          Call("word_to_markdown_from_bytes", ret, None)>>
          ELSE PandocExtracted(Append(calls, Call("word_to_markdown_pandoc_from_bytes",
                                                  ret, None)))
    /\ UNCHANGED <<md, outArg, lines, i, doc, net, iters, ret, result, upload>>

\* a wrapper is about to be called: markdown_to_word_pandoc with a text and
\* a file name, or an extracting wrapper with a path
InitPandoc ==
    /\ \/ /\ pc = "call_m2w"
          /\ md \in {JoinLines(ls) : ls \in PandocDocs}
          /\ outArg \in OutArgs
          /\ doc = <<>>
          /\ ret = None
       \/ /\ pc = "call_w2m"
          /\ md = <<>>
          /\ outArg = None
          /\ doc \in SeqsUpTo(BodyElements, 1)
          /\ ret \in {UploadedDocx, MissingDocx}
    /\ files = InitialFiles \cup {UploadedDocx}
    /\ lines = <<>>
    /\ i = 0
    /\ net = <<>>
    /\ iters = <<>>
    /\ parts = <<>>
    /\ mdOut = None
    /\ calls = <<>>
    /\ result = None
    /\ upload = NoUploads

NextPandoc ==
    \/ MarkdownToWordPandoc
    \/ WordToMarkdownPandoc
    \/ WordToMarkdownPandocFromBytes
    \/ Next

SpecPandoc == InitPandoc /\ [][NextPandoc]_vars

(***************************************************************************)
(* generate_document (src/main.py)                                         *)
(***************************************************************************)
\* text.strip()
StripText(s) ==
    LET keep == {k \in 1..Len(s) : s[k] \notin ReSpace}
    IN  IF keep = {} THEN <<>> ELSE SubSeq(s, SetMin(keep), SetMax(keep))

\* the file names a caller passes as markdown_filename; None for none
MdArgs == {None, <<"notes">>, <<"notes", ".", "md">>}

\* markdown_generator.py lines 43-47
MdName(name) ==
    IF name = None THEN <<"generated_document_", "timestamp", ".", "md">>
    ELSE IF ~EndsWith(name, <<".", "md">>) THEN name \o <<".", "md">>
    ELSE name

\* what the model's completion is: a text, nothing usable (an exception in
\* the request, or a reply with no content) 
LlmOutcomes == {"ok", "raises", "no_content"}

\* the texts the model replies with, before strip()
LlmReplies == {<<"\n">> \o JoinLines(ls) \o <<" ", "\n">> : ls \in PandocDocs}

\* str(e) of the exception generate_from_content raises, the cause being
\* what went wrong: both layers wrap the message of the one below
LlmError(cause) == <<"md_document_failed: ", "md_content_failed: ", cause>>

WriteError(cause) == <<"md_document_failed: ", cause>>

\* a variant that opens the Markdown file before it asks the model
MdFilesEager(fs, path, llm, written) == fs \cup {path}

\* a variant that never creates the Markdown file
MdFilesNever(fs, path, llm, written) == fs

\* the files once generate_from_content is over: the Markdown file is
\* created only when the model replied and the file could be opened
MdFiles(fs, path, llm, written) ==
    IF llm = "ok" /\ written THEN fs \cup {path} ELSE fs

\* main.py lines 52-54, markdown_generator.py lines 36-62 and llm_client.py
\* lines 36-62: the model is asked, the reply is saved as a Markdown file
\* and markdown_to_word is called with it; any failure is an exception
GenerateFromContent ==
    /\ pc = "call_generate"
    /\ \E llm \in LlmOutcomes, reply \in LlmReplies, name \in MdArgs,
          written \in BOOLEAN, word \in OutArgs :
          /\ files' = MdFiles(files, Join(OutputDir, MdName(name)), llm, written)
          /\ IF llm # "ok"
                THEN /\ calls' = <<Call("generate_markdown", name, "raised")>>
                     /\ ret' = LlmError(llm)
                     /\ pc' = "generate_raised"
                     /\ UNCHANGED <<md, outArg, mdOut>>
                ELSE IF ~written
                THEN /\ calls' = <<Call("generate_markdown", name, "ok")>>
                     /\ ret' = WriteError("open")
                     /\ pc' = "generate_raised"
                     /\ UNCHANGED <<md, outArg, mdOut>>
                ELSE /\ calls' = <<Call("generate_markdown", name, "ok"),
                                   Call("write", Join(OutputDir, MdName(name)),
                                        StripText(reply)),
                                   Call("markdown_to_word", word, None)>>
                     /\ md' = StripText(reply)
                     /\ mdOut' = Join(OutputDir, MdName(name))
                     /\ outArg' = word
                     /\ ret' = None
                     /\ pc' = "start"
    /\ UNCHANGED <<lines, i, doc, net, iters, parts, result, upload>>

\* a variant that removes the Markdown file when the conversion has failed
GenerateReturnRollback ==
    /\ pc \in {"generate_raised", "done", "raised"}
    /\ result = None
    /\ result' =
          IF pc = "done"
              THEN [success |-> TRUE, markdown_content |-> md, markdown_path |-> mdOut,
                    word_path |-> ret, message |-> "generated"]
          ELSE [success |-> FALSE,
                error |-> IF pc = "raised" THEN <<"markdown_to_word_failed: ", "save">>
                          ELSE ret,
                message |-> "generation failed"]
    /\ files' = IF pc = "raised" THEN files \ {mdOut} ELSE files
    /\ pc' = "returned"
    /\ UNCHANGED <<md, outArg, lines, i, doc, net, iters, ret, parts, mdOut, calls,
                   upload>>

\* main.py lines 61-78: the result of generate_document, once
\* markdown_to_word has returned or an exception has reached the handler
GenerateReturn ==
    /\ pc \in {"generate_raised", "done", "raised"}
    /\ result = None
    /\ result' =
          IF pc = "done"
              THEN [success |-> TRUE, markdown_content |-> md, markdown_path |-> mdOut,
                    word_path |-> ret, message |-> "generated"]
          ELSE [success |-> FALSE,
                error |-> IF pc = "raised" THEN <<"markdown_to_word_failed: ", "save">>
                          ELSE ret,
                message |-> "generation failed"]
    /\ pc' = "returned"
    /\ UNCHANGED <<md, outArg, lines, i, doc, files, net, iters, ret, parts, mdOut, calls,
                   upload>>

InitGenerate ==
    /\ pc = "call_generate"
    /\ md = <<>>
    /\ outArg = None
    /\ lines = <<>>
    /\ i = 0
    /\ doc = <<>>
    /\ files = InitialFiles
    /\ net = <<>>
    /\ iters = <<>>
    /\ ret = None
    /\ parts = <<>>
    /\ mdOut = None
    /\ calls = <<>>
    /\ result = None
    /\ upload = NoUploads

NextGenerate ==
    \/ GenerateFromContent
    \/ Next
    \/ GenerateReturn

SpecGenerate == InitGenerate /\ [][NextGenerate]_vars

(***************************************************************************)
(* normalize_media.py: normalize_markdown_file                             *)
(***************************************************************************)
\* the longest Markdown file, in segments of NormalizeSegments
MaxSegments == 3

\* open(md_path, "r").read(): text mode translates "\r\n" and a lone "\r"
\* to "\n"
ReadText(raw) ==
    Concat([k \in 1..Len(raw) |->
               IF raw[k] # "\r" THEN <<raw[k]>>
               ELSE IF k < Len(raw) /\ raw[k + 1] = "\n" THEN <<>>
               ELSE <<"\n">>])

NoSpan == [s |-> 0, e |-> 0]

\* IMG_PATTERN matched at position p of c: the span of group 1, the path
ImgPathAt(c, p) ==
    LET closes == {k \in (p + 2)..Len(c) : c[k] = "]"}
        q == SetMin(closes)
        stops == {k \in (q + 2)..Len(c) : c[k] = ")" \/ c[k] \in ReSpace}
        e == SetMin(stops) - 1
    IN  IF /\ p + 1 <= Len(c)
           /\ c[p] = "!"
           /\ c[p + 1] = "["
           /\ closes # {}
           /\ q + 1 <= Len(c)
           /\ c[q + 1] = "("
           /\ stops # {}
           /\ e >= q + 2
           /\ c[e + 1] = ")"
            THEN [s |-> q + 2, e |-> e]
        ELSE NoSpan

\* IMG_PATTERN.finditer(c) from position from on: the spans of group 1
RECURSIVE ImgMatches(_, _)
ImgMatchesAmong(c, starts) ==
    IF starts = {} THEN <<>>
    ELSE <<ImgPathAt(c, SetMin(starts))>>
             \o ImgMatches(c, ImgPathAt(c, SetMin(starts)).e + 2)

ImgMatches(c, from) ==
    ImgMatchesAmong(c, {p \in from..Len(c) : ImgPathAt(c, p).e # 0})

\* str.lower() of a token
LowerTok(tok) ==
    CASE tok = "PNG" -> "png"
      [] tok = "Media" -> "media"
      [] OTHER -> tok

IMAGE_EXTS == {"png", "jpg", "jpeg", "gif", "bmp", "webp"}

\* should_fix, lines 29-38
ShouldFix(path) ==
    /\ ~(Len(path) >= 2 /\ LowerTok(path[1]) = "media" /\ path[2] = "/")
    /\ \A k \in 1..Len(path) : path[k] \notin {"/", "\\"}
    /\ Len(SplitExt(path)) = 2
    /\ LowerTok(SplitExt(path)[2]) \in IMAGE_EXTS

\* lines 44-48: the reference is rewritten
Fixes(path, fs) == ShouldFix(path) /\ Join(MediaDir, path) \in fs

\* line 51: the span sp of new is replaced by media/<path>
Splice(new, sp, path) ==
    SubSeq(new, 1, sp.s - 1) \o <<"media", "/">> \o path
        \o SubSeq(new, sp.e + 1, Len(new))

\* lines 42-53 for the matches n, n - 1, ..., 1 of orig: the new content and
\* the two counts
RECURSIVE FixFrom(_, _, _, _, _)
FixCounted(rest, hit) ==
    [content |-> rest.content, total |-> rest.total + 1,
     fixed |-> rest.fixed + (IF hit THEN 1 ELSE 0)]

FixStep(orig, new, spans, n, fs, path) ==
    FixCounted(FixFrom(orig,
                       IF Fixes(path, fs) THEN Splice(new, spans[n], path) ELSE new,
                       spans, n - 1, fs),
               Fixes(path, fs))

FixFrom(orig, new, spans, n, fs) ==
    IF n = 0 THEN [content |-> new, total |-> 0, fixed |-> 0]
    ELSE FixStep(orig, new, spans, n, fs, SubSeq(orig, spans[n].s, spans[n].e))

\* lines 19-59 on the text content read from the file
Normalized(content, fs) ==
    FixFrom(content, content, ImgMatches(content, 1),
            Len(ImgMatches(content, 1)), fs)

\* the call returned r: the file is written when a reference was fixed
\* (lines 55-57) and the call is recorded
NormalizeReturned(r) ==
    /\ md' = IF r.fixed > 0 THEN r.content ELSE md
    /\ calls' = Append(calls, [fn |-> "normalize_markdown_file", arg |-> md,
                               ret |-> <<r.total, r.fixed>>,
                               wrote |-> r.fixed > 0])

\* one call of normalize_markdown_file on the file whose content is md
NormalizeMarkdownFile ==
    /\ pc = "normalize"
    /\ Len(calls) < MaxCalls
    /\ NormalizeReturned(Normalized(ReadText(md), files))
    /\ UNCHANGED <<pc, outArg, lines, i, doc, files, net, iters, ret, parts, mdOut,
                   result, upload>>

\* the pieces the Markdown files of the model are made of
NUpper == <<"!", "[", "u", "]", "(", "X", ".", "PNG", ")">>
NMedia == <<"!", "[", "m", "]", "(", "media", "/", "x", ".", "png", ")">>
NText == <<"!", "[", "d", "]", "(", "doc", ".", "txt", ")">>
NTitled == <<"!", "[", "t", "]", "(", "x", ".", "png", " ", "\"", "t", "\"", ")">>
NCrLf == <<"\r", "\n">>
NLf == <<"\n">>

NormalizeSegments ==
    {ILocal, IMissing, INested, NUpper, NMedia, NText, NTitled, NCrLf, NLf, LPara}

\* the files under media/ besides the initial ones
NormalizeFiles ==
    {Join(MediaDir, <<"X", ".", "PNG">>), Join(MediaDir, <<"doc", ".", "txt">>)}

InitNormalize ==
    /\ pc = "normalize"
    /\ md \in {Concat(segs) : segs \in SeqsUpTo(NormalizeSegments, MaxSegments)}
    /\ files \in {InitialFiles \cup NormalizeFiles, NormalizeFiles}
    /\ calls = <<>>
    /\ outArg = None
    /\ lines = <<>>
    /\ i = 0
    /\ doc = <<>>
    /\ net = <<>>
    /\ iters = <<>>
    /\ ret = None
    /\ parts = <<>>
    /\ mdOut = None
    /\ result = None
    /\ upload = NoUploads

NextNormalize == NormalizeMarkdownFile

SpecNormalize == InitNormalize /\ [][NextNormalize]_vars

(***************************************************************************)
(* web_app.py: the handler that saves an uploaded image                    *)
(***************************************************************************)
\* img.name of the uploads; media/x.png is there before any of them
UploadNames == {<<"x", ".", "png">>, <<"a", ".", "png">>}

\* str(counter) as one token
NumTok(n) ==
    CASE n = 1 -> "1" [] n = 2 -> "2" [] n = 3 -> "3" [] n = 4 -> "4"
      [] n = 5 -> "5" [] OTHER -> "6"

\* os.path.splitext(original_name)[0]
Root(name) == SubSeq(name, 1, Len(name) - Len(SplitExt(name)))

\* line 408: os.path.join(media_dir, f"{name}_{counter}{ext}")
SuffixedPath(name, counter) ==
    Join(MediaDir, Root(name) \o <<"_", NumTok(counter)>> \o SplitExt(name))

\* a variant that finds no file anywhere
ExistsNever(path, fs) == FALSE

\* os.path.exists(save_path)
Exists(path, fs) == path \in fs

Saving == {s \in Sessions : upload[s].pc # "idle"}

\* lines 397-405: the button is pressed in session s with an image chosen
ClickSave(s) ==
    /\ upload[s].pc = "idle"
    /\ Len(calls) + Cardinality(Saving) < MaxCalls
    /\ \E name \in UploadNames :
          upload' = [t \in Sessions |->
                        IF t = s
                            THEN [pc |-> "check", name |-> name,
                                  path |-> Join(MediaDir, name), counter |-> 1,
                                  overlapped |-> Saving # {}]
                        ELSE IF t \in Saving
                            THEN [upload[t] EXCEPT !.overlapped = TRUE]
                        ELSE upload[t]]
    /\ UNCHANGED <<files, calls>>

\* lines 406-409: one test of the while loop and, when it holds, its body
CheckExists(s) ==
    /\ upload[s].pc = "check"
    /\ upload' =
          IF Exists(upload[s].path, files)
              THEN [upload EXCEPT ![s].path = SuffixedPath(upload[s].name,
                                                           upload[s].counter),
                                  ![s].counter = upload[s].counter + 1]
          ELSE [upload EXCEPT ![s].pc = "write"]
    /\ UNCHANGED <<files, calls>>

\* lines 411-421: the file is written and the reference is added to the
\* text of the editor; before is the file system the write met
WriteFile(s) ==
    /\ upload[s].pc = "write"
    /\ files' = files \cup {upload[s].path}
    /\ calls' = Append(calls,
                       [fn |-> "save", session |-> s, name |-> upload[s].name,
                        path |-> upload[s].path, before |-> files,
                        overlapped |-> upload[s].overlapped,
                        inserted |-> <<"!", "[">> \o Root(Basename(upload[s].path))
                                        \o <<"]", "(", "media", "/">>
                                        \o Basename(upload[s].path) \o <<")">>])
    /\ upload' = [upload EXCEPT ![s] = Idle]

SaveImage ==
    /\ pc = "upload"
    /\ \E s \in Sessions : ClickSave(s) \/ CheckExists(s) \/ WriteFile(s)
    /\ UNCHANGED <<pc, md, outArg, lines, i, doc, net, iters, ret, parts, mdOut,
                   result>>

InitUpload ==
    /\ pc = "upload"
    /\ upload = NoUploads
    /\ files = InitialFiles
    /\ calls = <<>>
    /\ md = <<>>
    /\ outArg = None
    /\ lines = <<>>
    /\ i = 0
    /\ doc = <<>>
    /\ net = <<>>
    /\ iters = <<>>
    /\ ret = None
    /\ parts = <<>>
    /\ mdOut = None
    /\ result = None

NextUpload == SaveImage

SpecUpload == InitUpload /\ [][NextUpload]_vars

(***************************************************************************)
(* Claims about the forward scan                                           *)
(***************************************************************************)
\* the number of '|'-separated cells of a stripped row, as the code counts them
CellCount(row) == Len(Inner(Split(row, "|")))

PipeRow(row) == Len(row) >= 2 /\ row[1] = "|" /\ \E k \in 2..Len(row) : row[k] = "|"

\* C1: a table takes the rows after its separator only while each starts
\* with '|' and has as many cells as the header; the first row that does not
\* ends the table, is not in it, and is the line the next iteration reads.
C1_TableGuard ==
    \A n \in 1..Len(iters) :
        iters[n].kind = "table" =>
            LET it == iters[n]
                header == Strip(lines[it.from])
                tbl == doc[it.at + 1]
            IN  /\ it.added = 1
                /\ tbl.t = "tbl"
                /\ Len(tbl.rows) = it.to - it.from - 1
                /\ \A j \in (it.from + 2)..(it.to - 1) :
                      /\ PipeRow(Strip(lines[j]))
                      /\ CellCount(Strip(lines[j])) = CellCount(header)
                      /\ Len(tbl.rows[j - it.from]) = CellCount(header)
                /\ it.to <= Len(lines) =>
                      \/ ~PipeRow(Strip(lines[it.to]))
                      \/ CellCount(Strip(lines[it.to])) # CellCount(header)
                /\ it.to <= Len(lines) + 1
                /\ IF n < Len(iters) THEN iters[n + 1].from = it.to ELSE i = it.to

\* C1 witness: header | A | B |, a separator and a 3-cell row: the table has
\* the header row only and the 3-cell row was read by the next iteration.
C1_Witness ==
    \E n \in 1..Len(iters) :
        /\ iters[n].kind = "table"
        /\ n < Len(iters)
        /\ Strip(lines[iters[n].from]) = THeader
        /\ iters[n].to = iters[n].from + 2
        /\ lines[iters[n].to] = TRow3
        /\ Len(doc[iters[n].at + 1].rows) = 1
        /\ iters[n + 1].from = iters[n].to

\* C5: a fence emits nothing for its two marker lines and one Normal
\* paragraph for each line between them, whatever that line looks like; the
\* fence ends at the next line that starts with the marker.
C5_FenceFlattening ==
    \A n \in 1..Len(iters) :
        iters[n].kind = "fence" =>
            LET it == iters[n]
            IN  /\ StartsWith(Strip(lines[it.from]), Fence)
                /\ it.added = it.to - it.from - 2
                /\ \A k \in 1..it.added :
                      /\ ~StartsWith(Strip(lines[it.from + k]), Fence)
                      /\ doc[it.at + k].t = "p"
                      /\ doc[it.at + k].style = "Normal"
                      /\ doc[it.at + k] = AddParagraph(lines[it.from + k])
                /\ it.to - 1 <= Len(lines) => StartsWith(Strip(lines[it.to - 1]), Fence)
                /\ it.to - 1 <= Len(lines) + 1

\* C5 witness: a closed fence around two lines, one of them a heading line,
\* gave exactly two paragraphs.
C5_Witness ==
    \E n \in 1..Len(iters) :
        /\ iters[n].kind = "fence"
        /\ iters[n].added = 2
        /\ iters[n].to - 1 <= Len(lines)
        /\ \E k \in 1..2 : lines[iters[n].from + k] = LH1
        /\ Len(doc) >= iters[n].at + 2

\* C6: a line (as the loop reads it, stripped) that starts with k '#' and a
\* space, 1 <= k <= 4, gives a heading of level k whose text is the rest of
\* the line; any other line that starts with '#' gives a paragraph.
C6_HeadingLevels ==
    \A n \in 1..Len(iters) :
        LET it == iters[n]
            line == Strip(lines[it.from])
        IN  /\ \A k \in 1..4 :
                  StartsWith(line, HashMarker(k)) =>
                      /\ it.kind = "heading"
                      /\ it.added = 1
                      /\ doc[it.at + 1].style = HeadingStyle(k)
                      /\ ParaText(doc[it.at + 1]) = SubSeq(line, k + 2, Len(line))
            /\ (/\ StartsWith(line, <<"#">>)
                /\ \A k \in 1..4 : ~StartsWith(line, HashMarker(k))) =>
                      /\ it.kind = "para"
                      /\ it.added = 1
                      /\ doc[it.at + 1].style = "Normal"
                      /\ ParaText(doc[it.at + 1]) = line

\* C6 witness: "#### Title" gave a level-4 heading and "##Title" a paragraph.
C6_Witness ==
    /\ \E n \in 1..Len(iters) :
          /\ lines[iters[n].from] = LH4
          /\ doc[iters[n].at + 1].style = "Heading 4"
          /\ ParaText(doc[iters[n].at + 1]) = <<"Title">>
    /\ \E n \in 1..Len(iters) :
          /\ lines[iters[n].from] = LNoSpace
          /\ iters[n].kind = "para"

\* C9: every iteration moves the index forward, the iterations read the
\* lines one after the other without a gap, every line is accounted for by
\* the iteration that read it, a line that only looks like a table header is
\* a paragraph, and the loop ends with the index past the last line.
C9_ScanTerminates ==
    /\ \A n \in 1..Len(iters) :
          LET it == iters[n]
          IN  /\ it.to > it.from
              /\ it.from = IF n = 1 THEN 1 ELSE iters[n - 1].to
              /\ it.from <= Len(lines)
              /\ it.kind = "table" => Len(doc[it.at + 1].rows) = it.to - it.from - 1
              /\ it.kind = "fence" => it.added = it.to - it.from - 2
              /\ it.kind \notin {"table", "fence"} => it.to = it.from + 1 /\ it.added >= 1
              /\ it.to <= Len(lines) + (IF it.kind = "fence" THEN 2 ELSE 1)
              /\ (IsTableHeader(Strip(lines[it.from])) /\ it.kind # "table") =>
                      it.kind = "para"
    /\ pc = "scan" => i = IF iters = <<>> THEN 1 ELSE iters[Len(iters)].to
    /\ pc \in {"done", "raised"} => i > Len(lines) /\ iters # <<>>

\* C9 witness: an input with an unterminated fence, and one whose last line
\* looks like a table header, were both read to the end.
C9_Witness ==
    /\ pc = "done"
    /\ \E n \in 1..Len(iters) :
          \/ iters[n].kind = "fence" /\ iters[n].to = Len(lines) + 2
          \/ /\ iters[n].from = Len(lines)
             /\ IsTableHeader(Strip(lines[iters[n].from]))
             /\ iters[n].kind = "para"

(***************************************************************************)
(* Claims about the extraction                                             *)
(***************************************************************************)
\* the words of a text: its maximal runs of tokens that are no white space
RECURSIVE Words(_, _)
Words(text, word) ==
    IF text = <<>> THEN (IF word = <<>> THEN <<>> ELSE <<word>>)
    ELSE IF Head(text) \in ReSpace
        THEN (IF word = <<>> THEN <<>> ELSE <<word>>) \o Words(Tail(text), <<>>)
    ELSE Words(Tail(text), Append(word, Head(text)))

\* two texts are the same once their white space is normalised
SameText(a, b) == Words(a, <<>>) = Words(b, <<>>)

\* C2: the fragments are in document order: of two fragments, the one made
\* from the earlier body element comes first.
C2_DocumentOrder ==
    pc = "extracted" =>
        \A p \in 1..Len(parts), q \in 1..Len(parts) :
            p < q => parts[p].src < parts[q].src

\* what the code does instead: every paragraph fragment precedes every
\* table fragment, and each kind is in document order
C2_ParagraphsThenTables ==
    pc = "extracted" =>
        \A p \in 1..Len(parts), q \in 1..Len(parts) :
            p < q =>
                \/ parts[p].kind = "p" /\ parts[q].kind = "tbl"
                \/ parts[p].kind = parts[q].kind /\ parts[p].src < parts[q].src

\* C2 witness: a table followed by a paragraph was extracted, the
\* paragraph's fragment first
C2_Witness ==
    /\ pc = "extracted"
    /\ doc = <<RTable, RPlain>>
    /\ Len(parts) = 2
    /\ parts[1].src = 2
    /\ parts[2].src = 1

\* the fragment of the table at body index src, as lines
TableFragment(src) ==
    SplitLines(parts[CHOOSE p \in 1..Len(parts) : parts[p].src = src].text)

\* the fragment line of the r-th row of a table (the separator is line 2)
FragmentRow(fl, r) == fl[IF r = 1 THEN 1 ELSE r + 1]

\* C7: a Markdown table of N rows (the header included) and M columns, built
\* and extracted again, is a Markdown table of N rows and M columns whose
\* cells are those of the source, white space normalised.
C7_TableRoundTrip ==
    pc = "extracted" =>
        \A n \in 1..Len(iters) :
            iters[n].kind = "table" =>
                LET it == iters[n]
                    M == CellCount(Strip(lines[it.from]))
                    N == it.to - it.from - 1
                    SourceRow(r) == Strip(lines[it.from + (IF r = 1 THEN 0 ELSE r)])
                IN  /\ \E p \in 1..Len(parts) :
                          parts[p].src = it.at + 1 /\ parts[p].kind = "tbl"
                    /\ Len(TableFragment(it.at + 1)) = N + 1
                    /\ IsTableHeader(TableFragment(it.at + 1)[1])
                    /\ IsTableSeparator(TableFragment(it.at + 1)[2])
                    /\ Len(RowCells(TableFragment(it.at + 1)[2])) = M
                    /\ \A r \in 1..N :
                          /\ IsTableHeader(FragmentRow(TableFragment(it.at + 1), r))
                          /\ Len(RowCells(FragmentRow(TableFragment(it.at + 1), r))) = M
                          /\ \A c \in 1..M :
                                SameText(RowCells(FragmentRow(TableFragment(it.at + 1), r))[c],
                                         RowCells(SourceRow(r))[c])

\* C7 witness: | A | B |, a separator and the row |1| 2 <tab>x | came back
\* as | A | B |, | --- | --- | and | 1 | 2 x |.
C7_Witness ==
    /\ pc = "extracted"
    /\ lines = <<THeader, TSep, TRow2>>
    /\ Len(parts) = 1
    /\ parts[1].text = <<"|", " ", "A", " ", "|", " ", "B", " ", "|", "\n",
                         "|", " ", "-", "-", "-", " ", "|", " ", "-", "-", "-", " ", "|", "\n",
                         "|", " ", "1", " ", "|", " ", "2", " ", "x", " ", "|">>

\* C8: in the fragment of a table, a cell that spans columns ends in its
\* colspan hint and a cell of a vertical merge in its rowspan hint: the cell
\* is the text _cell_text_with_merge_hint gives.
C8_MergeHints ==
    pc = "extracted" =>
        \A p \in 1..Len(parts) :
            parts[p].kind = "tbl" =>
                \A r \in 1..Len(doc[parts[p].src].rows) :
                    \A g \in 1..Len(GridOfRow(doc[parts[p].src].rows[r])) :
                        MergeHints(CellAt(doc[parts[p].src], r, g)) # <<>> =>
                            /\ g <= Len(RowCells(FragmentRow(SplitLines(parts[p].text), r)))
                            /\ EndsWith(RowCells(FragmentRow(SplitLines(parts[p].text), r))[g],
                                        <<" ", "<">>
                                            \o JoinWith(MergeHints(CellAt(doc[parts[p].src], r, g)),
                                                        <<" ">>)
                                            \o <<">">>)

\* what the code does instead: a merged cell is emitted as its bare text,
\* once for every grid column it covers
C8_NoHints ==
    pc = "extracted" =>
        \A p \in 1..Len(parts) :
            parts[p].kind = "tbl" =>
                \A k \in 1..Len(parts[p].text) : parts[p].text[k] \notin {"<", ">"}

\* C8 witness: the table whose header spans two columns was extracted with
\* the header text in both columns
C8_Witness ==
    /\ pc = "extracted"
    /\ doc = <<RSpanTable>>
    /\ Len(parts) = 1
    /\ SplitLines(parts[1].text)[1] = <<"|", " ", "H", " ", "|", " ", "H", " ", "|">>

(***************************************************************************)
(* Claims about the assets                                                 *)
(***************************************************************************)
\* C3: once a call for a URL has fetched it and returned a path, which is
\* media/<hash><ext>, every later call for that URL returns the same path
\* and fetches nothing: the two calls make exactly one request.
C3_DownloadIdempotent ==
    \A a \in 1..Len(calls), b \in 1..Len(calls) :
        (/\ a < b
         /\ calls[a].arg = calls[b].arg
         /\ calls[a].fetched = 1
         /\ calls[a].ret # None) =>
            /\ calls[a].ret = Join(MediaDir, Basename(calls[a].ret))
            /\ Head(Basename(calls[a].ret)) = HashTok(calls[a].arg)
            /\ calls[b].ret = calls[a].ret
            /\ calls[b].fetched = 0
            /\ calls[a].fetched + calls[b].fetched = 1
            /\ calls[a].ret \in files

\* C3 witness: the URL without an extension was resolved twice in a row,
\* to media/sha_c.png both times, with one request.
C3_Witness ==
    /\ Len(calls) >= 2
    /\ calls[1].arg = UrlC
    /\ calls[2].arg = UrlC
    /\ calls[1].fetched = 1
    /\ calls[1].ret = Join(MediaDir, <<"sha_c", ".", "png">>)
    /\ calls[2].ret = calls[1].ret
    /\ net = <<UrlC>>

\* the text of the grey placeholder for an alt text
PlaceholderText(alt) ==
    <<"[", "pic:">> \o (IF alt = <<>> THEN <<"unnamed">> ELSE alt) \o <<"]">>

\* C4: an image line whose reference resolves to no file (a local path with
\* no file, a URL whose download failed) adds exactly one paragraph, the
\* grey placeholder with the alt text; it holds no picture and the scan goes
\* on with the next line.
C4_PlaceholderOnMissing ==
    \A n \in 1..Len(iters) :
        (iters[n].kind = "image" /\ ~iters[n].found) =>
            LET it == iters[n]
                para == doc[it.at + 1]
            IN  /\ it.added = 1
                /\ para.t = "p"
                /\ Len(para.runs) = 1
                /\ para.runs[1].fmt = "grey"
                /\ para.runs[1].pic = <<>>
                /\ para.runs[1].text = PlaceholderText(MatchImage(Strip(lines[it.from])).alt)
                /\ it.to = it.from + 1
                /\ IF n < Len(iters) THEN iters[n + 1].from = it.to ELSE i = it.to

\* C4 witness: a local reference with no file and a URL whose download
\* failed twice each left its placeholder.
C4_Witness ==
    /\ lines = <<IMissing, IRemote>>
    /\ Len(iters) = 2
    /\ ~iters[1].found
    /\ ~iters[2].found
    /\ net = <<UrlA, UrlA>>
    /\ Len(doc) = 2
    /\ doc[1].runs[1].text = <<"[", "pic:", "unnamed", "]">>
    /\ doc[2].runs[1].text = <<"[", "pic:", "r", "]">>

(***************************************************************************)
(* Claims about the Pandoc wrappers                                        *)
(***************************************************************************)
\* the calls of the history made to the functions F
CallsTo(F) == SelectSeq(calls, LAMBDA c : c.fn \in F)

PandocFns == {"pypandoc.convert_text", "pypandoc.convert_file"}

NativeFns == {"markdown_to_word", "word_to_markdown", "word_to_markdown_from_bytes"}

\* the native function a wrapper falls back to
NativeOf(fn) ==
    CASE fn = "markdown_to_word_pandoc" -> "markdown_to_word"
      [] fn = "word_to_markdown_pandoc" -> "word_to_markdown"
      [] OTHER -> "word_to_markdown_from_bytes"

\* C10: a wrapper invokes Pandoc at most once; when Pandoc is unavailable or
\* raised, the wrapper's one further call is the last of the history, is
\* to its native function, with the path or bytes the wrapper was given or
\* with a file name that names the output file the caller asked for, and
\* what the wrapper returns is what that call returns.
C10_FallbackOnce ==
    calls # <<>> =>
        /\ Len(CallsTo(PandocFns)) <= 1
        /\ (CallsTo(PandocFns) = <<>> \/ CallsTo(PandocFns)[1].ret = "raised") =>
              /\ Len(CallsTo(NativeFns)) = 1
              /\ calls[Len(calls)] = CallsTo(NativeFns)[1]
              /\ calls[Len(calls)].fn = NativeOf(calls[1].fn)
              /\ IF calls[1].fn = "markdown_to_word_pandoc"
                    THEN /\ OutputName(calls[Len(calls)].arg) = OutputName(calls[1].arg)
                         /\ outArg = calls[Len(calls)].arg
                         /\ pc = "done" =>
                               /\ ret = Join(OutputDir, OutputName(calls[1].arg))
                               /\ ret \in files
                         /\ pc \in {"start", "scan", "done", "raised"}
                    ELSE /\ calls[Len(calls)].arg = calls[1].arg
                         /\ pc = "extracted" =>
                               /\ mdOut = JoinParts(parts)
                               /\ \E oks \in [PicParas(doc) -> BOOLEAN] :
                                     parts = ExtractParts(doc, oks)
                         /\ pc = "extract_raised" => calls[1].arg \notin files
                         /\ pc \in {"extracted", "extract_raised"}

\* C10 witness: markdown_to_word_pandoc was called with no file name, the
\* conversion raised, markdown_to_word was called once with the generated
\* name and its path was returned.
C10_Witness ==
    /\ pc = "done"
    /\ Len(calls) = 3
    /\ calls[1] = Call("markdown_to_word_pandoc", None, None)
    /\ calls[2].fn = "pypandoc.convert_text"
    /\ calls[2].ret = "raised"
    /\ calls[3].fn = "markdown_to_word"
    /\ doc # <<>>
    /\ ret = Join(OutputDir, <<"converted_document_", "timestamp", ".", "docx">>)

(***************************************************************************)
(* Claims about generate_document                                          *)
(***************************************************************************)
\* C11: once the request to the model has failed, no file is ever written
\* by the call, no document is built, the call ends only by returning, and
\* what it returns has success = FALSE and a message that names the failure.
C11_LlmFailureNoOutput ==
    (calls # <<>> /\ calls[1].fn = "generate_markdown" /\ calls[1].ret = "raised") =>
        /\ files = InitialFiles
        /\ doc = <<>>
        /\ Len(calls) = 1
        /\ pc \in {"generate_raised", "returned"}
        /\ pc = "returned" =>
              /\ result.success = FALSE
              /\ result.message = "generation failed"
              /\ Len(result.error) = 3
              /\ result.error[1] = "md_document_failed: "
              /\ DOMAIN result = {"success", "error", "message"}

\* C11 witness: the request raised and generate_document returned a failure
C11_Witness ==
    /\ pc = "returned"
    /\ calls = <<Call("generate_markdown", None, "raised")>>
    /\ result.success = FALSE
    /\ result.error = LlmError("raises")
    /\ files = InitialFiles

(***************************************************************************)
(* Claims about the errors of the extraction                               *)
(***************************************************************************)
\* C12: word_to_markdown called with a path that is no file, directly or
\* as the fallback of word_to_markdown_pandoc, raises: no fragment was made,
\* no Markdown is returned, no file was written and Pandoc was not run.
C12_MissingSource ==
    (/\ calls # <<>>
     /\ calls[Len(calls)].fn = "word_to_markdown"
     /\ calls[Len(calls)].arg \notin files) =>
        /\ pc = "extract_raised"
        /\ parts = <<>>
        /\ mdOut = None
        /\ files = InitialFiles \cup {UploadedDocx}
        /\ CallsTo(PandocFns) = <<>>
        /\ calls[1].fn = "word_to_markdown_pandoc" => calls[1].arg = calls[Len(calls)].arg

\* C12 witness: word_to_markdown_pandoc was given a path that is no file;
\* it fell back to word_to_markdown, which raised.
C12_Witness ==
    /\ pc = "extract_raised"
    /\ calls = <<Call("word_to_markdown_pandoc", MissingDocx, None),
                 Call("word_to_markdown", MissingDocx, None)>>
    /\ doc = <<RPicture>>
    /\ mdOut = None

(***************************************************************************)
(* Claims about the images of the extraction                               *)
(***************************************************************************)
\* the fragments made from the body element k
PartsOf(k) == SelectSeq(parts, LAMBDA f : f.src = k)

\* the files the extraction wrote
WrittenFiles == files \ (InitialFiles \cup {UploadedDocx})

\* the Markdown image reference to a file name
ImageRef(name) == <<"!", "[", "image", "]", "(">> \o name \o <<")">>

\* C13: every paragraph gives at most one fragment, and a paragraph that
\* holds a picture gives exactly one, an image reference to a file that the
\* extraction wrote for it, and none of the paragraph's text.
C13_OneFragmentPerParagraph ==
    pc = "extracted" =>
        \A k \in 1..Len(doc) :
            doc[k].t = "p" =>
                /\ Len(PartsOf(k)) <= 1
                /\ HasPicture(doc[k]) =>
                      /\ Len(PartsOf(k)) = 1
                      /\ \E f \in WrittenFiles :
                            PartsOf(k)[1].text \in
                                {ImageRef(Basename(f)),
                                 ImageRef(<<"media", "/">> \o Basename(f))}
                      /\ Cardinality(WrittenFiles) = Cardinality(PicParas(doc))

\* what holds of the code: at most one fragment per paragraph, and of a
\* paragraph with a picture either a reference to a file written for it or,
\* when the extraction of the image raised, the paragraph's text if it has any
C13_AtMostOneFragment ==
    pc = "extracted" =>
        \A k \in 1..Len(doc) :
            doc[k].t = "p" =>
                /\ Len(PartsOf(k)) <= 1
                /\ (HasPicture(doc[k]) /\ PartsOf(k) # <<>>) =>
                      \/ \E f \in WrittenFiles : PartsOf(k)[1].text = ImageRef(Basename(f))
                      \/ PartsOf(k)[1].text = ParaText(doc[k])

\* C13 witness: a paragraph with a picture and a text was extracted as its
\* text, and no image file was written
C13_Witness ==
    /\ pc = "extracted"
    /\ doc = <<RPictureText>>
    /\ Len(parts) = 1
    /\ parts[1].text = <<"beside">>
    /\ WrittenFiles = {}

C14_ImagesInOutputDir ==
    pc = "extracted" =>
        \A f \in WrittenFiles :
            /\ f = Join(OutputDir, Basename(f))
            /\ Head(Basename(f)) = "extracted_"
            /\ \E p \in 1..Len(parts) : parts[p].text = ImageRef(Basename(f))

ItemText(line, kind) ==
    IF kind = "list" /\ OrderedPrefix(line) # 0 /\ ~StartsWith(line, <<"-", " ">>)
                     /\ ~StartsWith(line, <<"*", " ">>)
        THEN From(line, OrderedPrefix(line))
        ELSE From(line, 2)

\* C15: the paragraph of a list item or a quote carries the runs the inline
\* formatter gives for its text: bold, italic and monospace spans as runs
\* with the attribute and without the markers, as for a paragraph.
C15_InlineInListAndQuote ==
    \A n \in 1..Len(iters) :
        iters[n].kind \in {"list", "quote"} =>
            doc[iters[n].at + 1].runs
                = AddParagraph(ItemText(Strip(lines[iters[n].from]), iters[n].kind)).runs

\* what holds of the code: a list item or a quote is one plain run holding
\* the text as written, markers included
C15_OnePlainRun ==
    \A n \in 1..Len(iters) :
        iters[n].kind \in {"list", "quote"} =>
            doc[iters[n].at + 1].runs
                = <<Run(ItemText(Strip(lines[iters[n].from]), iters[n].kind), "plain")>>

\* C15 witness: the list item "* **b**" became one plain run "**b**", where
\* the same text as a paragraph is one bold run "b" between two empty runs
C15_Witness ==
    \E n \in 1..Len(iters) :
        /\ iters[n].kind = "list"
        /\ lines[iters[n].from] = LUlStar
        /\ doc[iters[n].at + 1].style = "List Bullet"
        /\ doc[iters[n].at + 1].runs = <<Run(<<"*", "*", "b", "*", "*">>, "plain")>>
        /\ Run(<<"b">>, "bold") \in
              {AddParagraph(<<"*", "*", "b", "*", "*">>).runs[k] :
                  k \in 1..Len(AddParagraph(<<"*", "*", "b", "*", "*">>).runs)}

\* ---- headings of extraction ----

\* N '#' characters, one space and the text
HeadingMd(n, text) == [k \in 1..n |-> "#"] \o <<" ">> \o text

\* the paragraph at body index k is a heading of one of the levels, with
\* text and without a picture
IsHeadingOf(k, levels) ==
    /\ doc[k].t = "p"
    /\ HeadingLevel(doc[k].style) \in levels
    /\ ~IsBlank(ParaText(doc[k]))
    /\ ~HasPicture(doc[k])

\* C16: for every N in 1..6, a paragraph with text and without a picture
\* whose style is "Heading N" is extracted as N '#', a space and the text.
C16_HeadingExtraction ==
    pc = "extracted" =>
        \A k \in 1..Len(doc) :
            IsHeadingOf(k, 1..6) =>
                /\ Len(PartsOf(k)) = 1
                /\ PartsOf(k)[1].text
                      = HeadingMd(HeadingLevel(doc[k].style), ParaText(doc[k]))

\* what holds of the code: the same for the levels 1..5
C16_HeadingExtractionTo5 ==
    pc = "extracted" =>
        \A k \in 1..Len(doc) :
            IsHeadingOf(k, 1..5) =>
                /\ Len(PartsOf(k)) = 1
                /\ PartsOf(k)[1].text
                      = HeadingMd(HeadingLevel(doc[k].style), ParaText(doc[k]))

\* C16 witness: a "Heading 6" paragraph with the text T was extracted as
\* the bare text, beside a "Heading 5" paragraph extracted as "##### T"
C16_Witness ==
    /\ pc = "extracted"
    /\ doc = <<RHeading6, RHeading5>>
    /\ Len(parts) = 2
    /\ parts[1].text = <<"T">>
    /\ parts[2].text = <<"#", "#", "#", "#", "#", " ", "T">>

\* ---- requests of one markdown_to_word call ----

\* the positions of the request history at which url was requested
FetchesOf(url) == {k \in 1..Len(net) : net[k] = url}

\* C17: within one markdown_to_word call every remote image URL is requested
\* at most once; a URL whose request failed is not requested again.
C17_FetchAtMostOnce ==
    \A url \in {UrlA, UrlB, UrlC} : Cardinality(FetchesOf(url)) <= 1

\* C17 witness: the one image line of the text names UrlA; the request made
\* while preprocessing failed, the line kept the URL, and _add_image
\* requested it again before adding the placeholder
C17_Witness ==
    /\ pc = "scan"
    /\ lines = <<IRemote>>
    /\ i = 2
    /\ net = <<UrlA, UrlA>>
    /\ CachePath(UrlA) \notin files
    /\ doc = <<Placeholder(<<"r">>)>>

\* ---- failed downloads ----

\* C18: a call of _download_image_to_media that fails returns None and
\* leaves no file at the cache path of its URL, and the next call with the
\* same URL makes a request again.
C18_FailureNotCached ==
    /\ (Len(calls) > 0 /\ calls[Len(calls)].ret = None) =>
           CachePath(calls[Len(calls)].arg) \notin files
    /\ \A a \in 1..Len(calls), b \in 1..Len(calls) :
           (/\ a < b
            /\ calls[a].arg = calls[b].arg
            /\ calls[a].ret = None
            /\ \A c \in (a + 1)..(b - 1) : calls[c].arg # calls[a].arg) =>
               calls[b].fetched = 1

\* C18 witness: the first call for UrlA made its request and failed while
\* writing the file; the second call returned the cache path without a
\* request, the file of the failed call being there
C18_Witness ==
    /\ Len(calls) = 2
    /\ calls[1].arg = UrlA
    /\ calls[1].ret = None
    /\ calls[1].fetched = 1
    /\ calls[2].arg = UrlA
    /\ calls[2].ret = CachePath(UrlA)
    /\ calls[2].fetched = 0
    /\ net = <<UrlA>>

\* ---- the file system under _add_image ----

\* the loop is at an image line whose reference is a local path, not a URL
AtLocalImage ==
    /\ InLoop("image")
    /\ MatchImage(Strip(lines[i])).path[1] \notin Schemes

\* C19: the iteration of an image line whose reference is a local path
\* leaves the file system as it was, wherever the file is found and when it
\* is not found.
C19_LocalResolutionPure == [][AtLocalImage => files' = files]_vars

\* what holds of the code: such an iteration removes no file, and the only
\* file it can add is media/<base name of the path>
C19_LocalResolutionAddsCopy ==
    [][AtLocalImage =>
          /\ files \subseteq files'
          /\ files' \ files \subseteq
                {Join(MediaDir, Basename(MatchImage(Strip(lines[i])).path))}]_vars

\* C19 witness: the line names sub/n.png, found as media/sub/n.png only;
\* the iteration copied it to media/n.png and inserted the copy
C19_Witness ==
    /\ pc = "scan"
    /\ lines = <<INested>>
    /\ i = 2
    /\ Join(MediaDir, <<"n", ".", "png">>) \in files
    /\ Join(MediaDir, <<"n", ".", "png">>) \notin InitialFiles
    /\ doc[1] = Picture(Join(MediaDir, <<"n", ".", "png">>))

\* ---- captions ----

\* the alt text of the image line an iteration read, as written in the
\* text handed to markdown_to_word (preprocessing keeps the number of lines)
SourceAlt(it) == MatchImage(Strip(SplitLines(md)[it.from])).alt

\* the iteration inserted a picture
InsertedPicture(it) ==
    /\ it.kind = "image"
    /\ it.added >= 1
    /\ Len(doc[it.at + 1].runs) = 1
    /\ doc[it.at + 1].runs[1].fmt = "picture"

\* C20: an image line that resolves is followed by exactly one centered
\* caption paragraph holding the alt text when the alt text written in the
\* source is not empty, and by no caption paragraph when it is empty.
C20_CaptionIffAlt ==
    \A n \in 1..Len(iters) :
        InsertedPicture(iters[n]) =>
            IF SourceAlt(iters[n]) # <<>>
                THEN /\ iters[n].added = 2
                     /\ doc[iters[n].at + 2] = Caption(SourceAlt(iters[n]))
            ELSE iters[n].added = 1

\* what holds of the code: the caption follows the alt text of the line as
\* the loop reads it, after preprocessing
C20_CaptionIffLoopAlt ==
    \A n \in 1..Len(iters) :
        InsertedPicture(iters[n]) =>
            LET alt == MatchImage(Strip(lines[iters[n].from])).alt
            IN  IF alt # <<>>
                    THEN /\ iters[n].added = 2
                         /\ doc[iters[n].at + 2] = Caption(alt)
                ELSE iters[n].added = 1

\* C20 witness: the source line is an image of UrlC with an empty alt text;
\* the download succeeded while preprocessing, the line was rewritten with
\* the alt text "image", and the picture got the caption "image"
C20_Witness ==
    /\ pc = "scan"
    /\ md = IRemoteNoAlt
    /\ i = 2
    /\ MatchImage(lines[1]).alt = <<"image">>
    /\ doc = <<Picture(CachePath(UrlC)), Caption(<<"image">>)>>
    /\ net = <<UrlC>>

(***************************************************************************)
(* Claims about normalize_markdown_file                                    *)
(***************************************************************************)
\* the content of the file when the k-th call returned
ContentAfter(k) == IF k < Len(calls) THEN calls[k + 1].arg ELSE md

\* c from position pos on, the path of every match from the n-th on that
\* has no separator, a recognized extension and a file under media/ being
\* prefixed with media/, every other position copied
RECURSIVE Rewritten(_, _, _, _, _)
RewrittenPath(path, fs) == (IF Fixes(path, fs) THEN <<"media", "/">> ELSE <<>>) \o path

Rewritten(c, spans, n, pos, fs) ==
    IF n > Len(spans) THEN SubSeq(c, pos, Len(c))
    ELSE SubSeq(c, pos, spans[n].s - 1)
             \o RewrittenPath(SubSeq(c, spans[n].s, spans[n].e), fs)
             \o Rewritten(c, spans, n + 1, spans[n].e + 1, fs)

\* the number of matches of c whose path is rewritten
FixedCount(c, spans, fs) ==
    Cardinality({n \in 1..Len(spans) : Fixes(SubSeq(c, spans[n].s, spans[n].e), fs)})

\* the k-th call took the content before to the content after as the
\* normalization pass is described
NormalizedAs(k, before, after) ==
    /\ after = Rewritten(before, ImgMatches(before, 1), 1, 1, files)
    /\ calls[k].ret[1] = Len(ImgMatches(before, 1))
    /\ calls[k].ret[2] = FixedCount(before, ImgMatches(before, 1), files)
    /\ calls[k].wrote <=> calls[k].ret[2] >= 1
    /\ k > 1 => calls[k].ret[2] = 0

\* C21: a call rewrites a reference to media/<reference> exactly when the
\* reference has no separator, has a recognized image extension, is not
\* media/-prefixed and names a file under media/; every other character of
\* the file is as it was; the file is written only when a reference was
\* fixed; a run on the result of a run fixes nothing.
C21_NormalizationPass ==
    \A k \in 1..Len(calls) : NormalizedAs(k, calls[k].arg, ContentAfter(k))

\* what holds of the code: the same, the line ends of a file that is
\* written being those of the text read from it ("\n" for "\r\n" and "\r"),
\* and a file that is not written being left as it was
C21_NormalizationOfText ==
    \A k \in 1..Len(calls) :
        IF calls[k].wrote
            THEN NormalizedAs(k, ReadText(calls[k].arg), ContentAfter(k))
        ELSE /\ ContentAfter(k) = calls[k].arg
             /\ calls[k].ret[2] = 0

\* C21 witness: the file "plain text\r\n![cap](x.png)" was rewritten to
\* "plain text\n![cap](media/x.png)": the reference fixed, the "\r" gone
C21_Witness ==
    /\ Len(calls) >= 1
    /\ calls[1].arg = LPara \o NCrLf \o ILocal
    /\ calls[1].ret = <<1, 1>>
    /\ calls[1].wrote
    /\ ContentAfter(1) =
          LPara \o NLf \o <<"!", "[", "cap", "]", "(", "media", "/", "x", ".", "png", ")">>

(***************************************************************************)
(* Claims about the output of markdown_to_word                             *)
(***************************************************************************)
DocxExt == <<".", "docx">>

\* C22: when markdown_to_word has returned, the path returned is the output
\* directory joined with the file name given, ".docx" appended exactly when
\* the name did not end in it, or with converted_document_<time stamp>.docx
\* when no name was given, and the document is a file at that path.
C22_OutputPath ==
    pc = "done" =>
        /\ ret = OutputDir \o <<"/">> \o Basename(ret)
        /\ outArg = None =>
               Basename(ret) = <<"converted_document_", "timestamp">> \o DocxExt
        /\ (outArg # None /\ EndsWith(outArg, DocxExt)) => Basename(ret) = outArg
        /\ (outArg # None /\ ~EndsWith(outArg, DocxExt)) =>
               Basename(ret) = outArg \o DocxExt
        /\ ret \in files

\* C22 witness: the call was given the name "report" and has returned
\* output/report.docx, which is a file
C22_Witness ==
    /\ pc = "done"
    /\ outArg = <<"report">>
    /\ ret = <<"output", "/", "report", ".", "docx">>
    /\ ret \in files
    /\ ret \notin InitialFiles

(***************************************************************************)
(* Claims about the results of generate_document                           *)
(***************************************************************************)
\* the model replied, the Markdown file was written and markdown_to_word
\* was called
ConverterCalled == Len(calls) = 3 /\ calls[3].fn = "markdown_to_word"

\* C23: when the request to the model and the conversion both succeeded,
\* generate_document returns success = TRUE with the two paths, both are
\* files, and the text written to the Markdown file is the text handed to
\* markdown_to_word and returned as markdown_content.
C23_SuccessfulGeneration ==
    (pc = "returned" /\ ConverterCalled /\ ret # None) =>
        /\ result.success = TRUE
        /\ DOMAIN result = {"success", "markdown_content", "markdown_path",
                            "word_path", "message"}
        /\ result.markdown_path \in files
        /\ result.word_path \in files
        /\ result.word_path = ret
        /\ calls[2] = Call("write", result.markdown_path, result.markdown_content)
        /\ result.markdown_content = md

\* C23 witness: the model replied with a heading; notes.md and report.docx
\* were written and returned
C23_Witness ==
    /\ pc = "returned"
    /\ result.success = TRUE
    /\ result.markdown_content = LH1
    /\ result.markdown_path = <<"output", "/", "notes", ".", "md">>
    /\ result.word_path = <<"output", "/", "report", ".", "docx">>
    /\ {result.markdown_path, result.word_path} \subseteq files
    /\ doc = <<AddHeading(<<"Title">>, 1)>>

(***************************************************************************)
(* Claims about the rules of _paragraph_to_markdown_full                   *)
(***************************************************************************)
TextRules == {"heading", "list", "quote", "plain"}

\* the first of the text rules that applies to a paragraph, the heading
\* rule being the one of the extractor (style "Heading 1" to "Heading 5")
RuleOf(para) ==
    IF HeadingLevel(para.style) \in 1..5 THEN "heading"
    ELSE IF para.numPr.present THEN "list"
    ELSE IF IsQuoteStyle(para.style) THEN "quote"
    ELSE "plain"

\* the line a rule makes of a paragraph
LineOf(rule, para) ==
    CASE rule = "heading" -> HeadingMd(HeadingLevel(para.style), ParaText(para))
      [] rule = "list" ->
            Concat([k \in 1..para.numPr.ilvl |-> <<" ", " ">>])
                \o (IF para.numPr.numId = 1 THEN <<"-", " ">> ELSE <<"1", ".", " ">>)
                \o ParaText(para)
      [] rule = "quote" -> <<">", " ">> \o ParaText(para)
      [] OTHER -> ParaText(para)

\* the picture of the paragraph at body index k was extracted
ImageRuleFired(k) ==
    /\ HasPicture(doc[k])
    /\ Len(PartsOf(k)) = 1
    /\ StartsWith(PartsOf(k)[1].text, <<"!", "[", "image", "]", "(">>)

EmptyLines(text) == {j \in 1..Len(Split(text, "\n")) : Split(text, "\n")[j] = <<>>}

\* every empty line of the lines ls stands between two lines that are not
SingleBlankLines(ls) ==
    \A j \in 1..Len(ls) :
        ls[j] = <<>> => /\ 1 < j
                        /\ j < Len(ls)
                        /\ ls[j - 1] # <<>>
                        /\ ls[j + 1] # <<>>

\* C25: no fragment of the extracted Markdown is empty or white space only,
\* a paragraph that is empty or white space only (as the forward converter
\* makes of a blank line) has no fragment, and the text returned is the
\* fragments with one blank line between each two.
C25_NoBlankFragments ==
    pc = "extracted" =>
        /\ \A p \in 1..Len(parts) : ~IsBlank(parts[p].text)
        /\ \A k \in 1..Len(doc) :
              (doc[k].t = "p" /\ IsBlank(ParaText(doc[k])) /\ ~HasPicture(doc[k])) =>
                  PartsOf(k) = <<>>
        /\ parts = <<>> => mdOut = <<>>
        /\ parts # <<>> =>
              /\ Cardinality(EmptyLines(mdOut)) = Len(parts) - 1
              /\ SingleBlankLines(Split(mdOut, "\n"))
              /\ StartsWith(mdOut, parts[1].text)
              /\ EndsWith(mdOut, parts[Len(parts)].text)

\* C25 witness: the text "# Title", a blank line, "# Title" became a
\* heading, an empty paragraph and a heading, and was extracted as two
\* fragments with one blank line between them
C25_Witness ==
    /\ pc = "extracted"
    /\ lines = <<LH1, LBlank, LH1>>
    /\ doc[2] = EmptyPara
    /\ Len(parts) = 2
    /\ parts[2].src = 3
    /\ mdOut = LH1 \o <<"\n", "\n">> \o LH1

(***************************************************************************)
(* Claims about lines that look like a table header                        *)
(***************************************************************************)
\* a cell of three or more dashes, a colon allowed before and after them
DashCell(c) ==
    \E a \in {0, 1}, b \in {0, 1} :
        /\ Len(c) - a - b >= 3
        /\ a = 1 => c[1] = ":"
        /\ b = 1 => c[Len(c)] = ":"
        /\ \A k \in (1 + a)..(Len(c) - b) : c[k] = "-"

\* a valid separator row: a pipe row with cells, each a DashCell
SeparatorRow(row) ==
    /\ PipeRow(row)
    /\ CellCount(row) >= 1
    /\ \A k \in 1..CellCount(row) : DashCell(RowCells(row)[k])

\* the line at index k looks like a table header and the next line, if
\* there is one, is no valid separator row
HeaderWithoutSeparator(k) ==
    /\ PipeRow(Strip(lines[k]))
    /\ ~(k + 1 <= Len(lines) /\ SeparatorRow(Strip(lines[k + 1])))

\* C26: the iteration that reads a line that looks like a table header and
\* is not followed by a valid separator row, the last line of the input
\* included, adds one ordinary paragraph with the line as its text and no
\* table, and moves on by one line; the next iteration reads the following
\* line, and starts a table there if that line is a header with a separator.
C26_TableNeedsSeparator ==
    \A n \in 1..Len(iters) :
        HeaderWithoutSeparator(iters[n].from) =>
            LET it == iters[n]
            IN  /\ it.kind = "para"
                /\ it.added = 1
                /\ doc[it.at + 1] = AddParagraph(Strip(lines[it.from]))
                /\ it.to = it.from + 1
                /\ n < Len(iters) =>
                      /\ iters[n + 1].from = it.from + 1
                      /\ (/\ PipeRow(Strip(lines[it.to]))
                          /\ ~HeaderWithoutSeparator(it.to)) =>
                              iters[n + 1].kind = "table"

\* C26 witness: a header followed by a row whose first cell has two dashes
\* only, that row being the last line: each became a paragraph
C26_Witness ==
    /\ lines = <<THeader, TBadSep>>
    /\ Len(iters) = 2
    /\ \A n \in 1..2 : iters[n].kind = "para"
    /\ Len(doc) = 2
    /\ ParaText(doc[1]) = THeader
    /\ ParaText(doc[2]) = TBadSep

(***************************************************************************)
(* Claims about saving uploaded images                                     *)
(***************************************************************************)
\* the name the c-th candidate of a save has: the name given, then
\* name_1, name_2, ...
Candidate(name, c) == IF c = 0 THEN Join(MediaDir, name) ELSE SuffixedPath(name, c)

\* C27: a save that ran with no other save under way wrote a file that was
\* not there: the name given when that was free, else the first of name_1,
\* name_2, ... that was free; it added the reference media/<file name> to its
\* text; and only a save that overlapped with another wrote over a file.
C27_SequentialSavesKeepFiles ==
    \A n \in 1..Len(calls) :
        LET w == calls[n]
        IN  /\ ~w.overlapped =>
                  /\ w.path \notin w.before
                  /\ \E c \in 0..MaxCalls + 1 :
                        /\ w.path = Candidate(w.name, c)
                        /\ \A j \in 0..(c - 1) : Candidate(w.name, j) \in w.before
            /\ w.path \in w.before => w.overlapped
            /\ w.path \in files
            /\ w.inserted = <<"!", "[">> \o Root(Basename(w.path)) \o <<"]", "(">>
                               \o <<"media", "/">> \o Basename(w.path) \o <<")">>

\* C27 witness: two sessions saved a.png at the same time; both found no
\* file at media/a.png, both chose it, and the second write met the file of
\* the first
C27_Witness ==
    /\ Len(calls) = 2
    /\ calls[1].session # calls[2].session
    /\ calls[1].path = Join(MediaDir, <<"a", ".", "png">>)
    /\ calls[2].path = calls[1].path
    /\ calls[1].path \notin calls[1].before
    /\ calls[2].path \in calls[2].before
    /\ Cardinality(files \ InitialFiles) = 1

\* two saves of x.png one after the other, media/x.png being there: the
\* first wrote media/x_1.png and the second media/x_2.png
C27_SuffixedInTurn ==
    /\ Len(calls) = 2
    /\ ~calls[1].overlapped
    /\ ~calls[2].overlapped
    /\ calls[1].path = Join(MediaDir, <<"x", "_", "1", ".", "png">>)
    /\ calls[2].path = Join(MediaDir, <<"x", "_", "2", ".", "png">>)

(***************************************************************************)
(* Claims about list items, built and extracted again                      *)
(***************************************************************************)
\* the iteration read an ordered list item: digits, a dot and a space
OrderedItem(it) ==
    /\ OrderedPrefix(Strip(lines[it.from])) # 0
    /\ ~StartsWith(Strip(lines[it.from]), <<"-", " ">>)
    /\ ~StartsWith(Strip(lines[it.from]), <<"*", " ">>)

\* the iterations that added a list item with text
ListIters ==
    {n \in 1..Len(iters) :
        iters[n].kind = "list" /\ ~IsBlank(ParaText(doc[iters[n].at + 1]))}

\* C28: a list item built by markdown_to_word is extracted by
\* word_to_markdown as a list line: "- " and the text for an unordered item,
\* "1. " and the text for an ordered one.
C28_ListRoundTrip ==
    pc = "extracted" =>
        \A n \in ListIters :
            /\ Len(PartsOf(iters[n].at + 1)) = 1
            /\ PartsOf(iters[n].at + 1)[1].text =
                  (IF OrderedItem(iters[n]) THEN <<"1", ".", " ">> ELSE <<"-", " ">>)
                      \o ItemText(Strip(lines[iters[n].from]), "list")

\* what holds of the code: the item is extracted as its bare text, and its
\* paragraph has a list style and no numbering properties of its own
C28_ListAsPlainText ==
    pc = "extracted" =>
        \A n \in ListIters :
            /\ doc[iters[n].at + 1].style \in {"List Bullet", "List Number"}
            /\ ~doc[iters[n].at + 1].numPr.present
            /\ Len(PartsOf(iters[n].at + 1)) = 1
            /\ PartsOf(iters[n].at + 1)[1].text =
                  ItemText(Strip(lines[iters[n].from]), "list")

\* C28 witness: "- item" and "12. item" were built as list paragraphs and
\* extracted as "item" and "item"
C28_Witness ==
    /\ pc = "extracted"
    /\ lines = <<LUl, LOl>>
    /\ doc[1].style = "List Bullet"
    /\ doc[2].style = "List Number"
    /\ mdOut = <<"item", "\n", "\n", "item">>

(***************************************************************************)
(* Claims about the inline formatter                                       *)
(***************************************************************************)
\* a matched span without its delimiters: two characters at each end of a
\* bold span, one at each end of an italic or a code span
Undelimited(span) ==
    IF Len(span) >= 4 /\ StartsWith(span, <<"*", "*">>) /\ EndsWith(span, <<"*", "*">>)
        THEN SubSeq(span, 3, Len(span) - 2)
    ELSE SubSeq(span, 2, Len(span) - 1)

\* the text with the delimiters of its matched spans removed: pieces is
\* text, span, text, span, ..., text
WithoutDelimiters(pieces) ==
    Concat([k \in 1..Len(pieces) |->
               IF k % 2 = 0 THEN Undelimited(pieces[k]) ELSE pieces[k]])

\* C29: the run texts of a paragraph, concatenated, are the text of the line
\* with the delimiters of the matched bold, italic and code spans removed and
\* nothing else.
C29_NoTextLost ==
    \A n \in 1..Len(iters) :
        iters[n].kind = "para" =>
            ParaText(doc[iters[n].at + 1])
                = WithoutDelimiters(InlineParts(Strip(lines[iters[n].from]), 1))

\* a piece of text between spans that begins and ends with the same marker
MarkerEnded(piece) ==
    /\ piece # <<>>
    /\ \/ piece[1] = "*" /\ piece[Len(piece)] = "*"
       \/ piece[1] = BQ /\ piece[Len(piece)] = BQ

\* what holds of the code: the same for every line none of whose pieces of
\* text between spans begins and ends with the same marker
C29_NoTextLostUnlessMarkerEnded ==
    \A n \in 1..Len(iters) :
        LET pieces == InlineParts(Strip(lines[iters[n].from]), 1)
        IN  (/\ iters[n].kind = "para"
             /\ \A k \in 1..Len(pieces) : k % 2 = 1 => ~MarkerEnded(pieces[k])) =>
                ParaText(doc[iters[n].at + 1]) = WithoutDelimiters(pieces)

\* C29 witness: the line is a code span c followed by one asterisk; the
\* paragraph has the code run c and an empty italic run, the asterisk gone
C29_Witness ==
    /\ lines = <<LCodeStar>>
    /\ Len(doc) = 1
    /\ doc[1].runs = <<Run(<<>>, "plain"), Run(<<"c">>, "mono"), Run(<<>>, "italic")>>
    /\ ParaText(doc[1]) = <<"c">>

\* C30: the Markdown file is on disk from the moment markdown_to_word is
\* called; when the conversion then fails, the exception is not passed on:
\* generate_document returns, with success = FALSE and the error, and the
\* Markdown file written by the call is still there.
C30_NoRollback ==
    ConverterCalled =>
        /\ calls[2].fn = "write"
        /\ calls[2].arg \in files
        /\ calls[2].arg = mdOut
        /\ pc = "raised" => ENABLED GenerateReturn
        /\ (pc = "returned" /\ ret = None) =>
              /\ result.success = FALSE
              /\ DOMAIN result = {"success", "error", "message"}
              /\ result.error = <<"markdown_to_word_failed: ", "save">>
              /\ Join(OutputDir, OutputName(outArg)) \notin files

\* C30 witness: notes.md was written, saving report.docx failed, and
\* generate_document returned the failure with notes.md in place
C30_Witness ==
    /\ pc = "returned"
    /\ ConverterCalled
    /\ result.success = FALSE
    /\ result.error = <<"markdown_to_word_failed: ", "save">>
    /\ outArg = <<"report">>
    /\ <<"output", "/", "notes", ".", "md">> \in files
    /\ <<"output", "/", "report", ".", "docx">> \notin files

====
